---- MODULE Spec2Model ----
(***************************************************************************)
(* A model of wrappergen: the subset enumerator (CombGen), the type        *)
(* resolver, the interface analyzer with its import table, and the         *)
(* emitter of types, vars, impls and the dispatch constructor.             *)
(***************************************************************************)
EXTENDS Integers, Sequences, FiniteSets, TLC

VARIABLES
    cg,         \* the CombGen under enumeration: [n, idxs, idxsNil]
    produced,   \* the subsets a consumer read with Get after each true Next
    lastRet,    \* what the latest call of Next returned: "none", "true", "false"
    extra,      \* calls of Next made after the first false
    nfIn,       \* input of the emitter: [base, exts, extraFields, prefix]
    nfTypes,    \* the emitted types section
    nfNew,      \* the emitted constructor
    npc,        \* where the emitter and the later call of the constructor stand
    rtX,        \* the extensions the value x passed to the constructor satisfies
    rtPos,      \* the case of the type switch under test (1-based)
    rtRes,      \* the struct the constructor returned
    world,      \* the type graph: the package and the embedded interfaces of each slot
    thisImports,\* thisPkg.Imports: the paths the input file's package imports
    pi,         \* parsedInput
    rt,         \* resolvedTypes
    ta,         \* typeAnalysis
    root,       \* the root under analysis: its index and the iface of analyzeInterface
    pc,         \* where mainErr stands
    buf,        \* the sections written to the buffer
    outFile,    \* the content of the output file
    prev,       \* how the previous run on the same input ended, if there was one
    view,       \* the enumerator over memory and the slices a consumer kept
    stderr,     \* the prefixes of the lines the run printed with warn
    ss,         \* the StringSets of a program, the strings added, the last result
    rd,         \* a type of go/types, its rendering and the method made of it
    call        \* a function of the generator applied alone: its input, its result

combVars == <<cg, produced, lastRet, extra>>
newVars == <<nfIn, nfTypes, nfNew, npc, rtX, rtPos, rtRes>>

genVars == <<world, thisImports, pi, rt, ta, root, pc, buf, outFile, prev>>

vars == <<cg, produced, lastRet, extra, nfIn, nfTypes, nfNew, npc, rtX, rtPos, rtRes,
          world, thisImports, pi, rt, ta, root, pc, buf, outFile, prev, view, stderr, ss, rd,
          call>>

(***************************************************************************)
(* Bounds of the model.                                                    *)
(***************************************************************************)
MaxN == 10
MaxExtraCalls == 2
MaxNewExt == 4
MaxExt == 2
MaxViewN == 5
MaxSlice == 2
MaxDepth == 2
MaxAstDepth == 2
MaxParams == 3

SeqRange(s) == {s[i] : i \in 1..Len(s)}

(***************************************************************************)
(* CombGen                                                                 *)
(***************************************************************************)

\* NewCombGen(n): idxs is the nil slice.
NewCombGen(n) == [n |-> n, idxs |-> <<>>, idxsNil |-> TRUE]

\* NCombs(n): uint64(1) << n (n stays far below 64 here).
NCombs(n) == 2 ^ n

\* The scan of Next: starting at position i (0-based) with limit l, the first
\* position, going left, whose index is below its limit; -1 when there is none.
RECURSIVE ScanIdxNoDec(_, _, _)
ScanIdxNoDec(idxs, i, l) ==
    IF i < 0 THEN -1
    ELSE IF idxs[i + 1] < l THEN i
    ELSE ScanIdxNoDec(idxs, i - 1, l)

RECURSIVE ScanIdx(_, _, _)
ScanIdx(idxs, i, l) ==
    IF i < 0 THEN -1
    ELSE IF idxs[i + 1] < l THEN i
    ELSE ScanIdx(idxs, i - 1, l - 1)

\* g.idxs[i]++ and the reset of the positions right of i to its successors.
BumpNoInc(idxs, i) ==
    [j \in 1..Len(idxs) |->
        IF j - 1 < i THEN idxs[j] ELSE idxs[i + 1] + 1]

Bump(idxs, i) ==
    [j \in 1..Len(idxs) |->
        IF j - 1 < i THEN idxs[j]
        ELSE IF j - 1 = i THEN idxs[i + 1] + 1
        ELSE (idxs[i + 1] + 1) + ((j - 1) - i)]

\* A Next without the test of len(g.idxs) > g.n on entry.
CombGenNextUnguarded(g) ==
    IF g.idxsNil
    THEN [g |-> [g EXCEPT !.idxs = <<>>, !.idxsNil = FALSE], ret |-> TRUE]
    ELSE LET i == ScanIdx(g.idxs, Len(g.idxs) - 1, g.n - 1) IN
         IF i >= 0
         THEN [g |-> [g EXCEPT !.idxs = Bump(g.idxs, i)], ret |-> TRUE]
         ELSE LET app == Append(g.idxs, 0) IN
              IF Len(app) > g.n
              THEN [g |-> [g EXCEPT !.idxs = app], ret |-> FALSE]
              ELSE [g |-> [g EXCEPT !.idxs = [j \in 1..Len(app) |-> j - 1]],
                    ret |-> TRUE]

\* (*CombGen).Next: the generator after the call and the returned boolean.
CombGenNext(g) ==
    IF Len(g.idxs) > g.n THEN [g |-> g, ret |-> FALSE]
    ELSE IF g.idxsNil
    THEN [g |-> [g EXCEPT !.idxs = <<>>, !.idxsNil = FALSE], ret |-> TRUE]
    ELSE LET i == ScanIdx(g.idxs, Len(g.idxs) - 1, g.n - 1) IN
         IF i >= 0
         THEN [g |-> [g EXCEPT !.idxs = Bump(g.idxs, i)], ret |-> TRUE]
         ELSE LET app == Append(g.idxs, 0) IN
              IF Len(app) > g.n
              THEN [g |-> [g EXCEPT !.idxs = app], ret |-> FALSE]
              ELSE [g |-> [g EXCEPT !.idxs = [j \in 1..Len(app) |-> j - 1]],
                    ret |-> TRUE]

\* (*CombGen).Get
CombGenGet(g) == g.idxs

(***************************************************************************)
(* The enumerator driven by a consumer: for comb.Next() { comb.Get() },    *)
(* and further calls of Next after the first false.                        *)
(***************************************************************************)
CombIdle ==
    /\ cg = NewCombGen(0)
    /\ produced = <<>>
    /\ lastRet = "none"
    /\ extra = 0

NewIdle ==
    /\ nfIn = [base |-> [pkgName |-> "", name |-> ""], exts |-> <<>>,
               extraFields |-> <<>>, prefix |-> ""]
    /\ nfTypes = <<>>
    /\ nfNew = <<>>
    /\ npc = "idle"
    /\ rtX = {}
    /\ rtPos = 0
    /\ rtRes = <<>>

\* The generator has not run: the value of its variables under the
\* specifications of CombGen and of the emitted constructor.
GenIdle ==
    /\ world = <<>>
    /\ thisImports = {}
    /\ pi = <<>>
    /\ rt = <<>>
    /\ ta = <<>>
    /\ root = <<>>
    /\ pc = "idle"
    /\ buf = <<>>
    /\ outFile = <<>>
    /\ prev = <<>>
    /\ stderr = <<>>

ViewIdle == view = <<>>

SetIdle == ss = <<>>

RenderIdle == rd = <<>>

CallIdle == call = <<>>

InitComb ==
    /\ \E n \in 0..MaxN : cg = NewCombGen(n)
    /\ produced = <<>>
    /\ lastRet = "none"
    /\ extra = 0
    /\ NewIdle
    /\ GenIdle
    /\ ViewIdle
    /\ SetIdle
    /\ RenderIdle
    /\ CallIdle

CombNext ==
    /\ lastRet = "false" => extra < MaxExtraCalls
    /\ LET r == CombGenNext(cg) IN
        /\ cg' = r.g
        /\ lastRet' = IF r.ret THEN "true" ELSE "false"
        /\ produced' = IF r.ret THEN Append(produced, CombGenGet(r.g)) ELSE produced
        /\ extra' = IF lastRet = "false" THEN extra + 1 ELSE extra
    /\ UNCHANGED newVars
    /\ UNCHANGED genVars
    /\ UNCHANGED <<view, stderr, ss, rd, call>>

NextComb == CombNext

SpecComb == InitComb /\ [][NextComb]_vars

\* The consumer keeps calling: for comb.Next() { ... } runs on until Next
\* returns false.
SpecCombFair == InitComb /\ [][NextComb]_vars /\ WF_vars(CombNext)

(***************************************************************************)
(* Names the emitter builds with Sprintf: a concatenation is kept as the   *)
(* tuple of its parts.                                                     *)
(***************************************************************************)

\* aType.String(): pkgName.name, or name alone when there is no package name.
ATypeString(at) == [pkgName |-> at.pkgName, name |-> at.name]

\* aType.StringNoDot(): pkgName and name joined without the dot.
StringNoDot(at) == <<at.pkgName, at.name>>

\* tbn := Sprintf("%s%d", en, counter), used as i<tbn> and t<tbn>.
Tbn(en, counter) == [en |-> en, counter |-> counter]

\* for comb.Next() { idxs := comb.Get(); ... }: the tuples the loop body sees.
RECURSIVE CombLoop(_, _)
CombLoop(g, acc) ==
    LET r == CombGenNext(g) IN
    IF r.ret THEN CombLoop(r.g, Append(acc, CombGenGet(r.g))) ELSE acc

\* printTypes with every interface embedding all the extensions.
PrintTypesAllExts(base, exts, extraFields) ==
    LET combs == CombLoop(NewCombGen(Len(exts)), <<>>)
        en == StringNoDot(base)
    IN [c \in 1..Len(combs) |->
           [iface |-> Tbn(en, c - 1),
            embeds |-> <<ATypeString(base)>> \o
                       [j \in 1..Len(exts) |-> ATypeString(exts[j])],
            struct |-> Tbn(en, c - 1),
            r |-> Tbn(en, c - 1),
            fields |-> [j \in 1..Len(extraFields) |->
                           [name |-> extraFields[j].name,
                            typeStr |-> extraFields[j].typeStr]]]]

\* printTypes: per subset the interface i<tbn> embedding the base and the
\* subset's extensions, and the struct t<tbn> with r and the extra fields.
PrintTypes(base, exts, extraFields) ==
    LET combs == CombLoop(NewCombGen(Len(exts)), <<>>)
        en == StringNoDot(base)
    IN [c \in 1..Len(combs) |->
           LET counter == c - 1
               idxs == combs[c]
               tbn == Tbn(en, counter)
           IN [iface |-> tbn,
               embeds |-> <<ATypeString(base)>> \o
                          [j \in 1..Len(idxs) |-> ATypeString(exts[idxs[j] + 1])],
               struct |-> tbn,
               r |-> tbn,
               fields |-> [j \in 1..Len(extraFields) |->
                              [name |-> extraFields[j].name,
                               typeStr |-> extraFields[j].typeStr]]]]

\* One case of the constructor's type switch: case i<tbn>: return &t<tbn>{r: r, f: f}.
NewFuncCase(en, counter, extraFields) ==
    [iface |-> Tbn(en, counter),
     struct |-> Tbn(en, counter),
     r |-> <<"", "r">>,
     fields |-> [j \in 1..Len(extraFields) |->
                    [name |-> extraFields[j].name,
                     value |-> <<"", extraFields[j].name>>]]]

\* for counter := nComb - 1; counter > 0; counter-- { ... }
RECURSIVE NewFuncCasesAscending(_, _, _, _)
NewFuncCasesAscending(en, counter, extraFields, acc) ==
    IF counter > 0
    THEN NewFuncCasesAscending(en, counter - 1, extraFields,
                               <<NewFuncCase(en, counter, extraFields)>> \o acc)
    ELSE acc

RECURSIVE NewFuncCasesWithZero(_, _, _, _)
NewFuncCasesWithZero(en, counter, extraFields, acc) ==
    IF counter >= 0
    THEN NewFuncCasesWithZero(en, counter - 1, extraFields,
                              Append(acc, NewFuncCase(en, counter, extraFields)))
    ELSE acc

RECURSIVE NewFuncCases(_, _, _, _)
NewFuncCases(en, counter, extraFields, acc) ==
    IF counter > 0
    THEN NewFuncCases(en, counter - 1, extraFields,
                      Append(acc, NewFuncCase(en, counter, extraFields)))
    ELSE acc

\* printNewFunc: the parameters, the switch (only when nComb > 1) and the
\* return of t<en>0 after it.
PrintNewFunc(prefix, base, exts, extraFields) ==
    LET varName == <<prefix, base.name>>
        en == StringNoDot(base)
        nComb == NCombs(Len(exts))
    IN [params |-> <<varName>> \o
                   [j \in 1..Len(extraFields) |-> <<"", extraFields[j].name>>],
        result |-> ATypeString(base),
        switchOn |-> varName,
        hasSwitch |-> nComb > 1,
        cases |-> IF nComb > 1 THEN NewFuncCases(en, nComb - 1, extraFields, <<>>)
                  ELSE <<>>,
        fallback |-> [struct |-> Tbn(en, 0),
                      r |-> varName,
                      fields |-> [j \in 1..Len(extraFields) |->
                                     [name |-> extraFields[j].name,
                                      value |-> <<"", extraFields[j].name>>]]]]

(***************************************************************************)
(* The emitted constructor at run time: a call with a value x whose        *)
(* dynamic type satisfies the base and the extensions rtX.                 *)
(***************************************************************************)

\* The value bound to a parameter of the call.
ArgValue(param) == [arg |-> param]

\* An identifier of the constructor's body evaluated in the call: inside a
\* case r is the switch's variable, bound to the value switched on.
EvalIdent(id, newFunc, inCase) ==
    IF inCase /\ id = <<"", "r">> THEN ArgValue(newFunc.switchOn) ELSE ArgValue(id)

\* The composite literal &t<tbn>{r: ..., f: ...} the body returns.
EvalReturn(ret, newFunc, inCase) ==
    [struct |-> ret.struct,
     r |-> EvalIdent(ret.r, newFunc, inCase),
     fields |-> [j \in 1..Len(ret.fields) |->
                    [name |-> ret.fields[j].name,
                     value |-> EvalIdent(ret.fields[j].value, newFunc, inCase)]]]

\* The interface of the types section named tbn.
TypeEntry(types, tbn) ==
    CHOOSE e \in SeqRange(types) : e.iface = tbn

\* x satisfies i<tbn>: it satisfies the base and every extension i<tbn> embeds.
Satisfies(X, types, tbn, base) ==
    /\ \E e \in SeqRange(types) : e.iface = tbn
    /\ SeqRange(TypeEntry(types, tbn).embeds) \subseteq (X \cup {ATypeString(base)})

ExtNames == <<"E1", "E2", "E3", "E4", "E5", "E6">>

ExtraFieldChoices ==
    { <<>>,
      << [name |-> "extra", typeStr |-> "int"] >>,
      << [name |-> "extra", typeStr |-> "int"], [name |-> "count", typeStr |-> "int"] >> }

InitNew ==
    /\ CombIdle
    /\ \E n \in 0..MaxNewExt, efs \in ExtraFieldChoices :
        nfIn = [base |-> [pkgName |-> "drv", name |-> "Conn"],
                exts |-> [j \in 1..n |-> [pkgName |-> "drv", name |-> ExtNames[j]]],
                extraFields |-> efs,
                prefix |-> "real"]
    /\ nfTypes = <<>>
    /\ nfNew = <<>>
    /\ npc = "types"
    /\ rtX = {}
    /\ rtPos = 0
    /\ rtRes = <<>>
    /\ GenIdle
    /\ ViewIdle
    /\ SetIdle
    /\ RenderIdle
    /\ CallIdle

EmitTypes ==
    /\ npc = "types"
    /\ nfTypes' = PrintTypes(nfIn.base, nfIn.exts, nfIn.extraFields)
    /\ npc' = "newfunc"
    /\ UNCHANGED <<nfIn, nfNew, rtX, rtPos, rtRes>>
    /\ UNCHANGED combVars
    /\ UNCHANGED genVars
    /\ UNCHANGED <<view, stderr, ss, rd, call>>

EmitNewFunc ==
    /\ npc = "newfunc"
    /\ nfNew' = PrintNewFunc(nfIn.prefix, nfIn.base, nfIn.exts, nfIn.extraFields)
    /\ npc' = "emitted"
    /\ UNCHANGED <<nfIn, nfTypes, rtX, rtPos, rtRes>>
    /\ UNCHANGED combVars
    /\ UNCHANGED genVars
    /\ UNCHANGED <<view, stderr, ss, rd, call>>

\* A call of the constructor with a value satisfying the extensions X.
CallNew ==
    /\ npc = "emitted"
    /\ \E X \in SUBSET {ATypeString(nfIn.exts[j]) : j \in 1..Len(nfIn.exts)} :
        rtX' = X
    /\ rtPos' = 1
    /\ npc' = IF nfNew.hasSwitch THEN "switch" ELSE "fallback"
    /\ UNCHANGED <<nfIn, nfTypes, nfNew, rtRes>>
    /\ UNCHANGED combVars
    /\ UNCHANGED genVars
    /\ UNCHANGED <<view, stderr, ss, rd, call>>

\* The type switch tests its cases in the order they are written.
TestCase ==
    /\ npc = "switch"
    /\ rtPos <= Len(nfNew.cases)
    /\ IF Satisfies(rtX, nfTypes, nfNew.cases[rtPos].iface, nfIn.base)
       THEN /\ rtRes' = EvalReturn(nfNew.cases[rtPos], nfNew, TRUE)
            /\ npc' = "returned"
            /\ rtPos' = rtPos
       ELSE /\ rtPos' = rtPos + 1
            /\ npc' = IF rtPos + 1 > Len(nfNew.cases) THEN "fallback" ELSE "switch"
            /\ rtRes' = rtRes
    /\ UNCHANGED <<nfIn, nfTypes, nfNew, rtX>>
    /\ UNCHANGED combVars
    /\ UNCHANGED genVars
    /\ UNCHANGED <<view, stderr, ss, rd, call>>

ReturnFallback ==
    /\ npc = "fallback"
    /\ rtRes' = EvalReturn(nfNew.fallback, nfNew, FALSE)
    /\ npc' = "returned"
    /\ UNCHANGED <<nfIn, nfTypes, nfNew, rtX, rtPos>>
    /\ UNCHANGED combVars
    /\ UNCHANGED genVars
    /\ UNCHANGED <<view, stderr, ss, rd, call>>

NextNew ==
    \/ EmitTypes
    \/ EmitNewFunc
    \/ CallNew
    \/ TestCase
    \/ ReturnFallback

SpecNew == InitNew /\ [][NextNew]_vars

(***************************************************************************)
(* The type graph the loader delivers (go/packages, go/types).             *)
(***************************************************************************)
ThisPkgPath == "ex/this"
DrvPath == "p/drv"
Drv2Path == "q/drv"
CtxPath == "std/ctx"

KnownPaths == {ThisPkgPath, DrvPath, Drv2Path, CtxPath}

\* packages.Package.Name: the name a package declares.
PkgName(path) ==
    CASE path = ThisPkgPath -> "this"
      [] path = DrvPath -> "drv"
      [] path = Drv2Path -> "drv"
      [] path = CtxPath -> "ctx"
      [] OTHER -> ""

\* The order of sort.Strings on the package paths of the model.
PathRank(path) ==
    CASE path = ThisPkgPath -> 1
      [] path = DrvPath -> 2
      [] path = Drv2Path -> 3
      [] path = CtxPath -> 4
      [] OTHER -> 5

\* A parameter name: the declared identifier, or param<n> (name "param").
ParamName(s, n) == [s |-> s, n |-> n]
DeclaredName(s) == ParamName(s, -1)

Slots == 1..4
TName == <<"T1", "T2", "T3", "T4">>
MName == <<"M1", "M2", "M3", "M4">>

\* The elements of a set of integers in ascending order.
AscSeq(S) ==
    CHOOSE s \in [1..Cardinality(S) -> S] :
        /\ \A i \in 1..Cardinality(S), j \in 1..Cardinality(S) : i < j => s[i] < s[j]

\* A type of go/types: Basic, Named (an object of a package, pkg nil when path
\* is empty) or a composite of element types.
NamedType(path, name) == [kind |-> "Named", path |-> path, name |-> name, elems |-> <<>>]
BasicType(name) == [kind |-> "Basic", path |-> "", name |-> name, elems |-> <<>>]
CompositeType(kind, elems) == [kind |-> kind, path |-> "", name |-> "", elems |-> elems]
NoType == [kind |-> "None", path |-> "", name |-> "", elems |-> <<>>]

\* types.Chan with its direction, types.Struct and types.Interface without a
\* name, types.Tuple, and types.Signature with Params(), Results() and
\* Variadic(); the last parameter of a variadic signature is a slice.
TypesChan(dir, elem) == [kind |-> "Chan", path |-> "", name |-> dir, elems |-> <<elem>>]
TypesStruct == CompositeType("Struct", <<>>)
TypesInterface == CompositeType("Interface", <<>>)
TypesTuple(elems) == CompositeType("Tuple", elems)
TypesSignature(params, results, variadic) ==
    [kind |-> "Signature", path |-> "", name |-> IF variadic THEN "variadic" ELSE "",
     elems |-> <<TypesTuple(params), TypesTuple(results)>>]

\* The slot of the world that declares the named interface, 0 when none does.
SlotOf(w, path, name) ==
    IF \E i \in Slots : TName[i] = name /\ w.pkgOf[i] = path
    THEN CHOOSE i \in Slots : TName[i] = name /\ w.pkgOf[i] = path
    ELSE 0

\* Whether the underlying type of a named type is an interface.
IsInterface(w, t) ==
    /\ t.kind = "Named"
    /\ \/ SlotOf(w, t.path, t.name) # 0
       \/ t.path = Drv2Path /\ t.name = "T1"
       \/ t.path = CtxPath /\ t.name = "Context"
       \/ t.path = "" /\ t.name = "error"

\* types.Interface.EmbeddedType(0..NumEmbeddeds-1)
EmbeddedTypes(w, t) ==
    LET i == SlotOf(w, t.path, t.name) IN
    IF i = 0 THEN <<>>
    ELSE [k \in 1..Len(w.emb[i]) |-> NamedType(w.pkgOf[w.emb[i][k]], TName[w.emb[i][k]])]

\* types.Interface.ExplicitMethod(0..NumExplicitMethods-1): name, parameters
\* (name, type) and results. T3 declares M3(v V, _ int) error and T4 declares
\* M4(v V, ctx.Context) error.
ExplicitMethods(w, t) ==
    LET i == SlotOf(w, t.path, t.name) IN
    IF i # 0
    THEN << [name |-> MName[i],
             params |-> << [name |-> DeclaredName("v"), type |-> NamedType(t.path, "V")] >> \o
                        (IF i = 4
                         THEN << [name |-> DeclaredName(""), type |-> NamedType(CtxPath, "Context")] >>
                         ELSE IF i = 3
                         THEN << [name |-> DeclaredName("_"), type |-> BasicType("int")] >>
                         ELSE <<>>),
             results |-> IF i = 1 THEN <<>> ELSE << NamedType("", "error") >>] >>
    ELSE IF t.path = Drv2Path /\ t.name = "T1"
    THEN << [name |-> "N1",
             params |-> << [name |-> DeclaredName("v"),
                            type |-> CompositeType("Slice", <<NamedType(Drv2Path, "V")>>)] >>,
             results |-> <<>>] >>
    ELSE <<>>

\* types.Scope.Lookup(name).Type() in the scope of the package at path. The
\* local package declares a type rune of its own.
ScopeLookup(w, path, name) ==
    IF SlotOf(w, path, name) # 0 THEN NamedType(path, name)
    ELSE IF path = Drv2Path /\ name = "T1" THEN NamedType(path, name)
    ELSE IF path \in {ThisPkgPath, DrvPath, Drv2Path} /\ name = "V" THEN NamedType(path, name)
    ELSE IF path = CtxPath /\ name = "Context" THEN NamedType(path, name)
    ELSE IF path = ThisPkgPath /\ name = "rune" THEN NamedType(path, name)
    ELSE NoType

\* types.Universe.Lookup(name).Type()
UniverseLookup(name) ==
    IF name = "error" THEN NamedType("", "error")
    ELSE IF name \in {"int", "string", "bool", "rune"} THEN BasicType(name)
    ELSE NoType

(***************************************************************************)
(* Input: symbolic types, imports and extra fields (parsedInput).          *)
(***************************************************************************)
AType(pkgName, name) == [pkgName |-> pkgName, name |-> name]
AnImport(name, path) == [name |-> name, path |-> path]

\* An ast.Expr of an extra field's type: Ident, SelectorExpr (X.Sel with X an
\* identifier), or a node over element expressions.
AstIdent(name) == [kind |-> "Ident", pkg |-> "", name |-> name, kids |-> <<>>]
AstSelector(pkg, name) == [kind |-> "SelectorExpr", pkg |-> pkg, name |-> name, kids |-> <<>>]
AstNode(kind, kids) == [kind |-> kind, pkg |-> "", name |-> "", kids |-> kids]

\* ast.ArrayType with its Len (none for a slice) and ast.FuncType with its
\* Params and, unless nil, its Results, each a list of field types.
AstArray(len, elt) == [kind |-> "ArrayType", pkg |-> "", name |-> len, kids |-> <<elt>>]
AstFunc(params, results) ==
    AstNode("FuncType",
            IF Len(results) = 0 THEN << AstNode("FieldList", params) >>
            ELSE << AstNode("FieldList", params), AstNode("FieldList", results) >>)

\* collectNamesFromAST: the symbolic types of the leaves, for the kinds the
\* switch handles; any other kind of node falls out of the switch.
\* The result is [types, err]; a SelectorExpr whose X is no identifier (it then
\* has an element expression) is an error.
RECURSIVE CollectNamesFromAST(_)
CollectNamesFromAST(a) ==
    CASE a.kind = "Ident" -> [types |-> << AType("", a.name) >>, err |-> FALSE]
      [] a.kind = "SelectorExpr" ->
            IF Len(a.kids) > 0 THEN [types |-> <<>>, err |-> TRUE]
            ELSE [types |-> << AType(a.pkg, a.name) >>, err |-> FALSE]
      [] a.kind \in {"ArrayType", "StarExpr", "ChanType", "MapType"} ->
            LET RECURSIVE Fold(_, _)
                Fold(k, acc) ==
                    IF k > Len(a.kids) THEN [types |-> acc, err |-> FALSE]
                    ELSE LET sub == CollectNamesFromAST(a.kids[k]) IN
                         IF sub.err THEN [types |-> <<>>, err |-> TRUE]
                         ELSE Fold(k + 1, acc \o sub.types)
            IN Fold(1, <<>>)
      [] a.kind = "FuncType" ->
            LET fields == a.kids[1].kids \o
                          (IF Len(a.kids) = 1 THEN <<>> ELSE a.kids[2].kids)
                RECURSIVE Fold(_, _)
                Fold(k, acc) ==
                    IF k > Len(fields) THEN [types |-> acc, err |-> FALSE]
                    ELSE LET sub == CollectNamesFromAST(fields[k]) IN
                         IF sub.err THEN [types |-> <<>>, err |-> TRUE]
                         ELSE Fold(k + 1, acc \o sub.types)
            IN Fold(1, <<>>)
      [] OTHER -> [types |-> <<>>, err |-> FALSE]

(***************************************************************************)
(* Resolver (resolvedTypes).                                               *)
(***************************************************************************)

\* A getPkgPath that searches the imports of the file first.
GetPkgPathFileFirst(pkgImports, at, imports) ==
    IF at.pkgName = "" THEN { [path |-> "", err |-> FALSE] }
    ELSE IF \E p \in pkgImports : PkgName(p) = at.pkgName
    THEN { [path |-> p, err |-> FALSE] : p \in {q \in pkgImports : PkgName(q) = at.pkgName} }
    ELSE IF \E k \in 1..Len(imports) : imports[k].name = at.pkgName
    THEN { [path |-> imports[k].path, err |-> FALSE] :
             k \in {j \in 1..Len(imports) : imports[j].name = at.pkgName} }
    ELSE { [path |-> "", err |-> TRUE] }

\* getPkgPath: every result the call can return. The user-supplied imports are
\* a slice, searched in order; thisPkg.Imports is a map, ranged over in an
\* order that changes from run to run, so any import whose package declares
\* the name can be the one returned.
GetPkgPath(pkgImports, at, imports) ==
    IF at.pkgName = "" THEN { [path |-> "", err |-> FALSE] }
    ELSE IF \E k \in 1..Len(imports) : imports[k].name = at.pkgName
    THEN LET k == CHOOSE k \in 1..Len(imports) :
                    /\ imports[k].name = at.pkgName
                    /\ \A j \in 1..(k - 1) : imports[j].name # at.pkgName
         IN { [path |-> imports[k].path, err |-> FALSE] }
    ELSE IF \E p \in pkgImports : PkgName(p) = at.pkgName
    THEN { [path |-> p, err |-> FALSE] : p \in {q \in pkgImports : PkgName(q) = at.pkgName} }
    ELSE { [path |-> "", err |-> TRUE] }

\* resolveAnyType once getPkgPath has returned: pkg is the path of the package
\* found ("" for the nil package).
ResolveAnyType(w, at, got) ==
    IF got.err THEN [pkg |-> "", type |-> NoType, err |-> TRUE]
    ELSE IF got.path = ""
    THEN LET local == ScopeLookup(w, ThisPkgPath, at.name)
             realType == IF local.kind = "None" THEN UniverseLookup(at.name) ELSE local
         IN [pkg |-> "", type |-> realType, err |-> realType.kind = "None"]
    ELSE IF got.path \notin KnownPaths
    THEN [pkg |-> "", type |-> NoType, err |-> TRUE]
    ELSE LET realType == ScopeLookup(w, got.path, at.name) IN
         IF realType.kind = "None" THEN [pkg |-> "", type |-> NoType, err |-> TRUE]
         ELSE [pkg |-> got.path, type |-> realType, err |-> FALSE]

\* wrapIntoResolvedType
WrapIntoResolvedType(typeToResolve, pkg, named) ==
    IF pkg = ""
    THEN [at |-> typeToResolve, rt |-> named, origPkgName |-> "", pkgPath |-> ""]
    ELSE [at |-> typeToResolve, rt |-> named, origPkgName |-> PkgName(pkg), pkgPath |-> pkg]

NoResolvedType == [at |-> AType("", ""), rt |-> NoType, origPkgName |-> "", pkgPath |-> ""]

\* resolveType: every result [res, err] of resolving a base or extension type.
ResolveType(w, pkgImports, imports, at) ==
    { LET r == ResolveAnyType(w, at, got) IN
      IF r.err THEN [res |-> NoResolvedType, err |-> TRUE]
      ELSE IF r.type.kind # "Named" THEN [res |-> NoResolvedType, err |-> TRUE]
      ELSE [res |-> WrapIntoResolvedType(at, r.pkg, r.type), err |-> FALSE]
      : got \in GetPkgPath(pkgImports, at, imports) }

\* The loop over pi.extTypes: every [list, err] it can end with.
RECURSIVE ResolveExtTypes(_, _, _, _, _, _)
ResolveExtTypes(w, pkgImports, imports, ats, k, acc) ==
    IF k > Len(ats) THEN { [list |-> acc, err |-> FALSE] }
    ELSE UNION { IF r.err THEN { [list |-> <<>>, err |-> TRUE] }
                 ELSE ResolveExtTypes(w, pkgImports, imports, ats, k + 1, Append(acc, r.res))
                 : r \in ResolveType(w, pkgImports, imports, ats[k]) }

\* The loop over the names collected from extra-field types: a name that
\* resolves to a type that is not named is skipped.
RECURSIVE ResolveEfTypes(_, _, _, _, _, _)
ResolveEfTypes(w, pkgImports, imports, ats, k, acc) ==
    IF k > Len(ats) THEN { [list |-> acc, err |-> FALSE] }
    ELSE UNION { LET r == ResolveAnyType(w, ats[k], got) IN
                 IF r.err THEN { [list |-> <<>>, err |-> TRUE] }
                 ELSE IF r.type.kind # "Named"
                 THEN ResolveEfTypes(w, pkgImports, imports, ats, k + 1, acc)
                 ELSE ResolveEfTypes(w, pkgImports, imports, ats, k + 1,
                                     Append(acc, WrapIntoResolvedType(ats[k], r.pkg, r.type)))
                 : got \in GetPkgPath(pkgImports, ats[k], imports) }

\* The names collected from all extra fields, in order; err when
\* collectNamesFromAST fails on one of them.
RECURSIVE CollectEfNames(_, _, _)
CollectEfNames(extraFields, k, acc) ==
    IF k > Len(extraFields) THEN [types |-> acc, err |-> FALSE]
    ELSE LET c == CollectNamesFromAST(extraFields[k].expr) IN
         IF c.err THEN [types |-> <<>>, err |-> TRUE]
         ELSE CollectEfNames(extraFields, k + 1, acc \o c.types)

NoResolvedTypes ==
    [thisPkgName |-> "", thisPkgPath |-> "", resolvedBaseType |-> NoResolvedType,
     resolvedExtTypes |-> <<>>, resolvedEfTypes |-> <<>>]

\* resolveTypes: every result [rt, err] of the call.
ResolveTypes(w, pkgImports, in) ==
    UNION { IF b.err THEN { [rt |-> NoResolvedTypes, err |-> TRUE] }
            ELSE UNION {
                IF e.err THEN { [rt |-> NoResolvedTypes, err |-> TRUE] }
                ELSE LET names == CollectEfNames(in.extraFields, 1, <<>>) IN
                     IF names.err THEN { [rt |-> NoResolvedTypes, err |-> TRUE] }
                     ELSE { IF f.err THEN [rt |-> NoResolvedTypes, err |-> TRUE]
                            ELSE [rt |-> [thisPkgName |-> PkgName(ThisPkgPath),
                                          thisPkgPath |-> ThisPkgPath,
                                          resolvedBaseType |-> b.res,
                                          resolvedExtTypes |-> e.list,
                                          resolvedEfTypes |-> f.list],
                                  err |-> FALSE]
                            : f \in ResolveEfTypes(w, pkgImports, in.imports,
                                                   names.types, 1, <<>>) }
                : e \in ResolveExtTypes(w, pkgImports, in.imports, in.extTypes, 1, <<>>) }
            : b \in ResolveType(w, pkgImports, in.imports, in.baseType) }

(***************************************************************************)
(* Interface analyzer (typeAnalysis): imports is the map pkg path -> name, *)
(* typeInfo the map (pkg path, type name) -> interfaceInfo, typeQueue the  *)
(* queue of processedType.                                                 *)
(***************************************************************************)
MapPut(m, k, v) == [x \in (DOMAIN m) \cup {k} |-> IF x = k THEN v ELSE m[x]]

EmptyMap == [x \in {} |-> ""]

PkgPathAndName(pkgPath, typeName) == <<pkgPath, typeName>>

\* A rendered type: the source string, kept as the tree of its parts; pkg is
\* the qualifier written before the dot ("" when the name is not qualified).
Str(kind, pkg, name, elems) == [kind |-> kind, pkg |-> pkg, name |-> name, elems |-> elems]
EmptyStr == Str("", "", "", <<>>)

\* typeAnalysis.typeToStr: [str, imports, err]. A channel whose element type
\* cannot be rendered returns the empty string and no error.
RECURSIVE TypeToStr(_, _, _)
RECURSIVE TupleToTypes(_, _, _, _, _)
RECURSIVE ParamTupleToTypesString(_, _, _, _)
RECURSIVE RetvalTupleToTypesString(_, _, _)
TypeToStr(imports, thisPkgPath, vType) ==
    CASE vType.kind = "Basic" ->
            [str |-> Str("Basic", "", vType.name, <<>>), imports |-> imports, err |-> FALSE]
      [] vType.kind \in {"Pointer", "Array", "Slice"} ->
            LET e == TypeToStr(imports, thisPkgPath, vType.elems[1]) IN
            IF e.err THEN [str |-> EmptyStr, imports |-> e.imports, err |-> TRUE]
            ELSE [str |-> Str(vType.kind, "", "", <<e.str>>), imports |-> e.imports,
                  err |-> FALSE]
      [] vType.kind = "Map" ->
            LET k == TypeToStr(imports, thisPkgPath, vType.elems[1]) IN
            IF k.err THEN [str |-> EmptyStr, imports |-> k.imports, err |-> TRUE]
            ELSE LET e == TypeToStr(k.imports, thisPkgPath, vType.elems[2]) IN
                 IF e.err THEN [str |-> EmptyStr, imports |-> e.imports, err |-> TRUE]
                 ELSE [str |-> Str("Map", "", "", <<k.str, e.str>>), imports |-> e.imports,
                       err |-> FALSE]
      [] vType.kind = "Chan" ->
            LET e == TypeToStr(imports, thisPkgPath, vType.elems[1]) IN
            IF e.err THEN [str |-> EmptyStr, imports |-> e.imports, err |-> FALSE]
            ELSE [str |-> Str("Chan", "",
                              CASE vType.name = "SendRecv" ->
                                      IF vType.elems[1].kind = "Chan"
                                             /\ vType.elems[1].name = "RecvOnly"
                                      THEN "chan ()" ELSE "chan"
                                [] vType.name = "RecvOnly" -> "<-chan"
                                [] vType.name = "SendOnly" -> "chan<-",
                              <<e.str>>),
                  imports |-> e.imports, err |-> FALSE]
      [] vType.kind \in {"Struct", "Tuple", "Interface"} ->
            [str |-> EmptyStr, imports |-> imports, err |-> TRUE]
      [] vType.kind = "Signature" ->
            LET p == ParamTupleToTypesString(imports, thisPkgPath, vType.elems[1].elems,
                                             vType.name = "variadic") IN
            IF p.err THEN [str |-> EmptyStr, imports |-> p.imports, err |-> TRUE]
            ELSE LET r == RetvalTupleToTypesString(p.imports, thisPkgPath,
                                                   vType.elems[2].elems) IN
                 IF r.err THEN [str |-> EmptyStr, imports |-> r.imports, err |-> TRUE]
                 ELSE [str |-> Str("Func", "", "", <<p.str, r.str>>), imports |-> r.imports,
                       err |-> FALSE]
      [] vType.kind = "Named" ->
            IF vType.path = ""
            THEN [str |-> Str("Named", "", vType.name, <<>>), imports |-> imports,
                  err |-> FALSE]
            ELSE IF vType.path = thisPkgPath
            THEN [str |-> Str("Named", "", vType.name, <<>>), imports |-> imports,
                  err |-> FALSE]
            ELSE IF vType.path \in DOMAIN imports
            THEN [str |-> Str("Named",
                              IF imports[vType.path] # "" THEN imports[vType.path]
                              ELSE PkgName(vType.path),
                              vType.name, <<>>),
                  imports |-> imports, err |-> FALSE]
            ELSE [str |-> Str("Named", PkgName(vType.path), vType.name, <<>>),
                  imports |-> MapPut(imports, vType.path, ""), err |-> FALSE]
      [] OTHER -> [str |-> EmptyStr, imports |-> imports, err |-> TRUE]

\* typeAnalysis.paramTupleToTypesString: "(t1, t2, ...tn)", the last type
\* prefixed as it was rendered when the signature is variadic.
ParamTupleToTypesString(imports, thisPkgPath, tuple, variadic) ==
    LET t == TupleToTypes(imports, thisPkgPath, tuple, 1, <<>>) IN
    IF t.err THEN [str |-> EmptyStr, imports |-> t.imports, err |-> TRUE]
    ELSE [str |-> Str("Params", "", "",
                      IF variadic
                      THEN [t.types EXCEPT ![Len(tuple)] = Str("Variadic", "", "", <<@>>)]
                      ELSE t.types),
          imports |-> t.imports, err |-> FALSE]

\* typeAnalysis.retvalTupleToTypesString: the one type, or "(t1, t2)".
RetvalTupleToTypesString(imports, thisPkgPath, tuple) ==
    LET t == TupleToTypes(imports, thisPkgPath, tuple, 1, <<>>) IN
    IF t.err THEN [str |-> EmptyStr, imports |-> t.imports, err |-> TRUE]
    ELSE IF Len(t.types) = 1 THEN [str |-> t.types[1], imports |-> t.imports, err |-> FALSE]
    ELSE [str |-> Str("Results", "", "", t.types), imports |-> t.imports, err |-> FALSE]

\* typeAnalysis.tupleToParameters: [params, imports, err].
RECURSIVE TupleToParameters(_, _, _, _, _)
TupleToParameters(imports, thisPkgPath, t, idx, acc) ==
    IF idx > Len(t) THEN [params |-> acc, imports |-> imports, err |-> FALSE]
    ELSE LET s == TypeToStr(imports, thisPkgPath, t[idx].type) IN
         IF s.err THEN [params |-> <<>>, imports |-> s.imports, err |-> TRUE]
         ELSE TupleToParameters(s.imports, thisPkgPath, t, idx + 1,
                                Append(acc, [name |-> t[idx].name, typeStr |-> s.str]))

\* typeAnalysis.tupleToTypes: [types, imports, err].
TupleToTypes(imports, thisPkgPath, t, idx, acc) ==
    IF idx > Len(t) THEN [types |-> acc, imports |-> imports, err |-> FALSE]
    ELSE LET s == TypeToStr(imports, thisPkgPath, t[idx]) IN
         IF s.err THEN [types |-> <<>>, imports |-> s.imports, err |-> TRUE]
         ELSE TupleToTypes(s.imports, thisPkgPath, t, idx + 1, Append(acc, s.str))

\* typeAnalysis.analyzeExplicitMethods: [infos, imports, err].
RECURSIVE AnalyzeExplicitMethods(_, _, _, _, _)
AnalyzeExplicitMethods(imports, thisPkgPath, methods, idx, acc) ==
    IF idx > Len(methods) THEN [infos |-> acc, imports |-> imports, err |-> FALSE]
    ELSE LET p == TupleToParameters(imports, thisPkgPath, methods[idx].params, 1, <<>>) IN
         IF p.err THEN [infos |-> <<>>, imports |-> p.imports, err |-> TRUE]
         ELSE LET r == TupleToTypes(p.imports, thisPkgPath, methods[idx].results, 1, <<>>) IN
              IF r.err THEN [infos |-> <<>>, imports |-> r.imports, err |-> TRUE]
              ELSE AnalyzeExplicitMethods(r.imports, thisPkgPath, methods, idx + 1,
                        Append(acc, [name |-> methods[idx].name,
                                     parameters |-> p.params,
                                     returnTypes |-> r.types]))

\* typeAnalysis.contains
ContainsNever(typeInfo, info) == FALSE

Contains(typeInfo, info) == info \in DOMAIN typeInfo

\* typeAnalysis.addForAnalysis
AddForAnalysis(typeQueue, info, iface) == Append(typeQueue, [info |-> info, iface |-> iface])

\* typeAnalysis.insert
Insert(typeInfo, info, embeddedTypes, explicitMethods) ==
    MapPut(typeInfo, info,
           [embeddedTypes |-> embeddedTypes, explicitMethods |-> explicitMethods])

\* typeAnalysis.analyzeEmbeddedTypes: [infos, imports, typeQueue, err]. The
\* import entry is made for the package of every embedded type.
RECURSIVE AnalyzeEmbeddedTypes(_, _, _, _, _)
AnalyzeEmbeddedTypes(a, w, embeddeds, idx, acc) ==
    IF idx > Len(embeddeds)
    THEN [infos |-> acc, imports |-> a.imports, typeQueue |-> a.typeQueue, err |-> FALSE]
    ELSE LET et == embeddeds[idx] IN
         IF et.kind # "Named"
         THEN [infos |-> <<>>, imports |-> a.imports, typeQueue |-> a.typeQueue,
               err |-> TRUE]
         ELSE LET pkgPath == et.path
                  imports1 == IF pkgPath # "" /\ pkgPath \notin DOMAIN a.imports
                              THEN MapPut(a.imports, pkgPath, "")
                              ELSE a.imports
                  info == PkgPathAndName(pkgPath, et.name)
              IN IF Contains(a.typeInfo, info)
                 THEN AnalyzeEmbeddedTypes([a EXCEPT !.imports = imports1], w, embeddeds,
                                           idx + 1, Append(acc, info))
                 ELSE IF ~IsInterface(w, et)
                 THEN [infos |-> <<>>, imports |-> imports1, typeQueue |-> a.typeQueue,
                       err |-> TRUE]
                 ELSE AnalyzeEmbeddedTypes(
                          [a EXCEPT !.imports = imports1,
                                    !.typeQueue = AddForAnalysis(a.typeQueue, info, et)],
                          w, embeddeds, idx + 1, Append(acc, info))

\* analyzeResolvedTypeForImports without the comparison with a recorded
\* alias: the visitor's alias replaces the one recorded.
AnalyzeResolvedTypeForImportsOverwriting(imports, thisPkgPath, resType, importsMap) ==
    IF resType.pkgPath = "" THEN [imports |-> imports, err |-> FALSE]
    ELSE IF resType.pkgPath = thisPkgPath THEN [imports |-> imports, err |-> FALSE]
    ELSE [imports |-> MapPut(imports, resType.pkgPath,
                             IF resType.origPkgName # resType.at.pkgName
                             THEN resType.at.pkgName ELSE ""),
          err |-> FALSE]

\* typeAnalysis.analyzeResolvedTypeForImports: [imports, err].
AnalyzeResolvedTypeForImports(imports, thisPkgPath, resType, importsMap) ==
    IF resType.pkgPath = "" THEN [imports |-> imports, err |-> FALSE]
    ELSE IF resType.pkgPath = thisPkgPath THEN [imports |-> imports, err |-> FALSE]
    ELSE IF resType.pkgPath \in DOMAIN imports
    THEN LET overriddenName == imports[resType.pkgPath] IN
         IF overriddenName = ""
         THEN [imports |-> imports, err |-> resType.origPkgName # resType.at.pkgName]
         ELSE [imports |-> imports, err |-> overriddenName # resType.at.pkgName]
    ELSE IF resType.origPkgName # resType.at.pkgName
    THEN LET overriddenName == resType.at.pkgName IN
         IF resType.pkgPath \in DOMAIN importsMap
                /\ importsMap[resType.pkgPath] # overriddenName
         THEN [imports |-> imports, err |-> TRUE]
         ELSE [imports |-> MapPut(imports, resType.pkgPath, overriddenName), err |-> FALSE]
    ELSE IF resType.pkgPath \in DOMAIN importsMap
                /\ importsMap[resType.pkgPath] # resType.origPkgName
         THEN [imports |-> imports, err |-> TRUE]
         ELSE [imports |-> MapPut(imports, resType.pkgPath, ""), err |-> FALSE]

\* typeAnalysis.analyzeForImports: the base, the extensions, the extra-field
\* types, in this order, stopping at the first error.
RECURSIVE AnalyzeForImports(_, _, _, _, _)
AnalyzeForImports(imports, thisPkgPath, resTypes, idx, importsMap) ==
    IF idx > Len(resTypes) THEN [imports |-> imports, err |-> FALSE]
    ELSE LET r == AnalyzeResolvedTypeForImports(imports, thisPkgPath, resTypes[idx],
                                                importsMap)
         IN IF r.err THEN r
            ELSE AnalyzeForImports(r.imports, thisPkgPath, resTypes, idx + 1, importsMap)

\* The importsMap of analyze: path -> name of the user-supplied imports; dup
\* when a path occurs twice.
RECURSIVE ImportsMap(_, _, _)
ImportsMap(imports, idx, acc) ==
    IF idx > Len(imports) THEN [map |-> acc, dup |-> FALSE]
    ELSE IF imports[idx].path \in DOMAIN acc THEN [map |-> acc, dup |-> TRUE]
    ELSE ImportsMap(imports, idx + 1, MapPut(acc, imports[idx].path, imports[idx].name))

(***************************************************************************)
(* Emitter: imports, vars and impls (types and the constructor are above). *)
(***************************************************************************)

\* The paths in descending order.
SortedPathsDescending(S) ==
    CHOOSE s \in [1..Cardinality(S) -> S] :
        \A i \in 1..Cardinality(S), j \in 1..Cardinality(S) :
            i < j => PathRank(s[i]) > PathRank(s[j])

\* sort.Strings on the keys of ta.imports.
SortedPaths(S) ==
    CHOOSE s \in [1..Cardinality(S) -> S] :
        \A i \in 1..Cardinality(S), j \in 1..Cardinality(S) :
            i < j => PathRank(s[i]) < PathRank(s[j])

\* printImports: one line per path, with the name before it when not empty.
PrintImports(imports) ==
    LET sortedImports == SortedPaths(DOMAIN imports) IN
    [k \in 1..Len(sortedImports) |->
        [name |-> imports[sortedImports[k]], path |-> sortedImports[k]]]

\* printVars with the inner loop over all the extensions instead of idxs.
PrintVarsAllExts(base, exts) ==
    LET combs == CombLoop(NewCombGen(Len(exts)), <<>>)
        en == StringNoDot(base)
    IN [i \in 1..(Len(combs) * (Len(exts) + 1)) |->
           LET c == (i - 1) \div (Len(exts) + 1)
               j == (i - 1) % (Len(exts) + 1)
           IN [type |-> ATypeString(IF j = 0 THEN base ELSE exts[j]),
               struct |-> Tbn(en, c)]]

\* printVars: per subset, _ base = &t<tbn>{} and one line per extension.
PrintVars(base, exts) ==
    LET combs == CombLoop(NewCombGen(Len(exts)), <<>>)
        en == StringNoDot(base)
        RECURSIVE Loop(_, _)
        Loop(c, acc) ==
            IF c > Len(combs) THEN acc
            ELSE LET tbn == Tbn(en, c - 1)
                     idxs == combs[c]
                 IN Loop(c + 1,
                         acc \o << [type |-> ATypeString(base), struct |-> tbn] >> \o
                         [j \in 1..Len(idxs) |->
                             [type |-> ATypeString(exts[idxs[j] + 1]), struct |-> tbn]])
    IN Loop(1, <<>>)

\* A generateName without the loop on names.Has.
GenerateNameOnce(names, name, idx) ==
    IF name = DeclaredName("") THEN ParamName("param", idx) ELSE name

\* generateName: the name used, which the caller's names set then holds.
GenerateName(names, name, idx) ==
    LET RECURSIVE Loop(_, _)
        Loop(nm, i) == IF nm \in names THEN Loop(ParamName("param", i * 10), i * 10) ELSE nm
    IN Loop(IF name = DeclaredName("") THEN ParamName("param", idx) ELSE name, idx)

\* The names parametersFull.String and parametersNames.String give the
\* parameters, position by position (idx counts from 0).
RECURSIVE GeneratedNames(_, _, _, _)
GeneratedNames(p, k, names, acc) ==
    IF k > Len(p) THEN acc
    ELSE LET name == GenerateName(names, p[k].name, k - 1) IN
         GeneratedNames(p, k + 1, names \cup {name}, Append(acc, name))

\* parametersFull.String: "name type" per parameter.
ParametersFull(p) ==
    LET names == GeneratedNames(p, 1, {}, <<>>) IN
    [k \in 1..Len(p) |-> [name |-> names[k], typeStr |-> p[k].typeStr]]

\* parametersNames.String: the names alone.
ParametersNames(p) == GeneratedNames(p, 1, {}, <<>>)

\* printExplicitImplsOfInterface, for an interface the table holds: one
\* method of t<tbn> per explicit method.
PrintExplicitImplsOfInterface(typeInfo, info, ctx) ==
    LET ifaceInfo == typeInfo[info] IN
    [k \in 1..Len(ifaceInfo.explicitMethods) |->
        LET mi == ifaceInfo.explicitMethods[k] IN
        [recv |-> ctx.tbn,
         name |-> mi.name,
         params |-> ParametersFull(mi.parameters),
         returnTypes |-> mi.returnTypes,
         returns |-> Len(mi.returnTypes) > 0,
         callee |-> <<ctx.prefix, mi.name>>,
         args |-> << [recv |-> TRUE, field |-> "r"] >> \o
                  [j \in 1..Len(ctx.extraFields) |->
                      [recv |-> TRUE, field |-> ctx.extraFields[j].name]],
         forwarded |-> ParametersNames(mi.parameters)]]

\* printImplsFromInterfaceRecursive, printImplsOfEmbeddedTypes and its loop.
\* The result is [out, excludes, fail]: fail is "bug" when mustGet finds no
\* entry (exit code 2) and "overflow" when a call is entered again, with the
\* same arguments, while it is running: the recursion then never ends.
RECURSIVE PrintImplsFromInterfaceRecursive(_, _, _, _, _)
RECURSIVE PrintImplsOfEmbeddedTypes(_, _, _, _, _)
RECURSIVE EmbeddedLoop(_, _, _, _, _, _, _, _)

EmbeddedLoop(typeInfo, etis, idx, excludes, newExcludes, out, ctx, stack) ==
    IF idx > Len(etis) THEN [out |-> out, excludes |-> newExcludes, fail |-> ""]
    ELSE IF etis[idx] \in excludes
    THEN EmbeddedLoop(typeInfo, etis, idx + 1, excludes, newExcludes, out, ctx, stack)
    ELSE LET added == newExcludes \cup {etis[idx]}
             sub == PrintImplsFromInterfaceRecursive(typeInfo, etis[idx], added, ctx, stack)
         IN IF sub.fail # ""
            THEN [out |-> out \o sub.out, excludes |-> added, fail |-> sub.fail]
            ELSE EmbeddedLoop(typeInfo, etis, idx + 1, excludes,
                              added \cup sub.excludes, out \o sub.out, ctx, stack)

PrintImplsOfEmbeddedTypes(typeInfo, info, excludes, ctx, stack) ==
    IF info \notin DOMAIN typeInfo
    THEN [out |-> <<>>, excludes |-> {}, fail |-> "bug"]
    ELSE EmbeddedLoop(typeInfo, typeInfo[info].embeddedTypes, 1, excludes, {}, <<>>,
                      ctx, stack)

PrintImplsFromInterfaceRecursive(typeInfo, info, excludes, ctx, stack) ==
    IF <<info, excludes>> \in stack
    THEN [out |-> <<>>, excludes |-> {}, fail |-> "overflow"]
    ELSE LET sub == PrintImplsOfEmbeddedTypes(typeInfo, info, excludes, ctx,
                                              stack \cup {<<info, excludes>>})
         IN IF sub.fail # "" THEN sub
            ELSE [out |-> sub.out \o PrintExplicitImplsOfInterface(typeInfo, info, ctx),
                  excludes |-> excludes \cup sub.excludes,
                  fail |-> ""]

\* printImplsFromResolvedType
PrintImplsFromResolvedType(typeInfo, resType, ctx, excludes) ==
    LET info == PkgPathAndName(resType.pkgPath, resType.at.name) IN
    PrintImplsFromInterfaceRecursive(typeInfo, info, excludes \cup {info}, ctx, {})

\* printImpls: per subset the walk of the base, then of each extension of the
\* subset, handing the excludes on: [out, fail].
PrintImpls(resolved, typeInfo, prefix, extraFields) ==
    LET combs == CombLoop(NewCombGen(Len(resolved.resolvedExtTypes)), <<>>)
        en == StringNoDot(resolved.resolvedBaseType.at)
        RECURSIVE ExtLoop(_, _, _, _, _)
        ExtLoop(idxs, j, handled, out, ctx) ==
            IF j > Len(idxs) THEN [out |-> out, fail |-> ""]
            ELSE LET r == PrintImplsFromResolvedType(
                              typeInfo, resolved.resolvedExtTypes[idxs[j] + 1], ctx, handled)
                 IN IF r.fail # "" THEN [out |-> out \o r.out, fail |-> r.fail]
                    ELSE ExtLoop(idxs, j + 1, r.excludes, out \o r.out, ctx)
        RECURSIVE Loop(_, _)
        Loop(c, out) ==
            IF c > Len(combs) THEN [out |-> out, fail |-> ""]
            ELSE LET ctx == [tbn |-> Tbn(en, c - 1), prefix |-> prefix,
                             extraFields |-> extraFields]
                     b == PrintImplsFromResolvedType(typeInfo, resolved.resolvedBaseType,
                                                     ctx, {})
                 IN IF b.fail # "" THEN [out |-> out \o b.out, fail |-> b.fail]
                    ELSE LET e == ExtLoop(combs[c], 1, b.excludes, out \o b.out, ctx) IN
                         IF e.fail # "" THEN e ELSE Loop(c + 1, e.out)
    IN Loop(1, <<>>)

(***************************************************************************)
(* The run of the generator (mainErr).                                     *)
(***************************************************************************)
NoAnalysis == [thisPkgPath |-> "", imports |-> EmptyMap, typeInfo |-> <<>>, typeQueue |-> <<>>]

\* How the input names the interface of slot i: by its bare name when it is
\* local, by the declared name of its package otherwise.
SlotAType(w, i) ==
    IF w.pkgOf[i] = ThisPkgPath THEN AType("", TName[i])
    ELSE AType(PkgName(w.pkgOf[i]), TName[i])

PkgAssignments ==
    { <<ThisPkgPath, ThisPkgPath, ThisPkgPath, ThisPkgPath>>,
      <<DrvPath, DrvPath, DrvPath, DrvPath>>,
      <<ThisPkgPath, ThisPkgPath, DrvPath, DrvPath>> }

\* Sequences of pairwise distinct slots, none the base, of length at most MaxExt.
ExtSlotSeqs(b) ==
    UNION { { s \in [1..n -> Slots \ {b}] : \A i, j \in 1..n : i # j => s[i] # s[j] }
            : n \in 0..MaxExt }

\* Extra fields: a name with the expression of its type (typeStr is the
\* source text of expr, kept as the expression).
ExtraField(name, expr) == [name |-> name, typeStr |-> expr, expr |-> expr]

ExtraFieldInputs ==
    { <<>>,
      << ExtraField("extra", AstIdent("int")) >>,
      << ExtraField("extra", AstSelector("drv", "V")) >>,
      << ExtraField("extra", AstNode("StarExpr", <<AstSelector("ctx", "Context")>>)) >>,
      << ExtraField("extra", AstNode("MapType", <<AstIdent("string"), AstSelector("d", "V")>>)) >>,
      << ExtraField("extra", AstNode("StructType", <<AstSelector("ctx", "Context")>>)) >>,
      << ExtraField("extra", AstNode("InterfaceType", <<>>)) >>,
      << ExtraField("extra", AstIdent("int")),
         ExtraField("ctx", AstNode("StarExpr", <<AstSelector("ctx", "Context")>>)) >>,
      << ExtraField("two words", AstIdent("int")) >> }

ImportInputs ==
    { <<>>,
      << AnImport("d", DrvPath) >>,
      << AnImport("", DrvPath) >>,
      << AnImport("drv", Drv2Path) >> }

\* Any embedding graph over the four interfaces (an interface embeds
\* interfaces of higher slots only: Go rejects embedding cycles), in a local
\* package, in an imported one, or in both; the base and up to MaxExt
\* extensions among them.
InitGraphs ==
    /\ \E po \in PkgAssignments,
          s1 \in SUBSET {2, 3, 4}, s2 \in SUBSET {3, 4}, s3 \in SUBSET {4} :
        world = [pkgOf |-> po, emb |-> <<AscSeq(s1), AscSeq(s2), AscSeq(s3), <<>> >>]
    /\ thisImports = {DrvPath, CtxPath}
    /\ \E b \in Slots : \E es \in ExtSlotSeqs(b) :
        pi = [baseType |-> SlotAType(world, b),
              extTypes |-> [k \in 1..Len(es) |-> SlotAType(world, es[k])],
              extraFields |-> <<>>,
              imports |-> <<>>,
              prefix |-> "real",
              newFuncName |-> "newT",
              outFile |-> "wrappers.go"]

\* One graph of imported interfaces (T1 embeds T2), named under different
\* aliases, with user-supplied imports and extra fields.
InitAliases ==
    /\ world = [pkgOf |-> <<DrvPath, DrvPath, DrvPath, DrvPath>>,
                emb |-> << <<2>>, <<>>, <<>>, <<>> >>]
    /\ thisImports \in { {DrvPath, CtxPath}, {DrvPath, Drv2Path, CtxPath} }
    /\ \E ba \in {"drv", "d"},
          es \in { <<>>, <<AType("drv", "T2")>>, <<AType("d", "T3")>> },
          im \in ImportInputs,
          efs \in ExtraFieldInputs,
          out \in {"wrappers.go", "nodir/wrappers.go"} :
        pi = [baseType |-> AType(ba, "T1"),
              extTypes |-> es,
              extraFields |-> efs,
              imports |-> im,
              prefix |-> "real",
              newFuncName |-> "newT",
              outFile |-> out]

NoRun == [ran |-> FALSE, exit |-> "", outFile |-> <<>>]

Init ==
    /\ CombIdle
    /\ NewIdle
    /\ InitGraphs \/ InitAliases
    /\ rt = NoResolvedTypes
    /\ ta = NoAnalysis
    /\ root = [idx |-> 0, iface |-> NoType]
    /\ pc = "resolve"
    /\ buf = <<>>
    /\ outFile = <<>>
    /\ prev = NoRun
    /\ stderr = <<>>
    /\ ViewIdle
    /\ SetIdle
    /\ RenderIdle
    /\ CallIdle

\* What the steps of one run leave alone.
Others == <<cg, produced, lastRet, extra, nfIn, nfTypes, nfNew, npc, rtX, rtPos, rtRes, prev,
           view, stderr, ss, rd, call>>

\* rt.resolveTypes(pi)
DoResolveTypes ==
    /\ pc = "resolve"
    /\ \E r \in ResolveTypes(world, thisImports, pi) :
        IF r.err
        THEN /\ pc' = "failed"
             /\ rt' = rt
        ELSE /\ pc' = "analyze"
             /\ rt' = r.rt
    /\ UNCHANGED <<world, thisImports, pi, ta, root, buf, outFile>>
    /\ UNCHANGED Others

\* ta.analyze up to the end of analyzeForImports.
DoAnalyzeForImports ==
    /\ pc = "analyze"
    /\ LET im == ImportsMap(pi.imports, 1, EmptyMap)
           r == AnalyzeForImports(EmptyMap, rt.thisPkgPath,
                                  <<rt.resolvedBaseType>> \o rt.resolvedExtTypes
                                      \o rt.resolvedEfTypes,
                                  1, im.map)
       IN IF im.dup
          THEN /\ pc' = "failed"
               /\ ta' = [ta EXCEPT !.thisPkgPath = rt.thisPkgPath]
          ELSE /\ pc' = IF r.err THEN "failed" ELSE "roots"
               /\ ta' = [ta EXCEPT !.thisPkgPath = rt.thisPkgPath, !.imports = r.imports]
    /\ root' = [idx |-> 0, iface |-> NoType]
    /\ UNCHANGED <<world, thisImports, pi, rt, buf, outFile>>
    /\ UNCHANGED Others

\* The resolved type analyzeForExtraImportsTypesAndMethods is at: the base,
\* then the extensions.
RootType(resolved, idx) ==
    IF idx = 0 THEN resolved.resolvedBaseType ELSE resolved.resolvedExtTypes[idx]

\* analyzeResolvedTypeForExtraImportsTypesAndMethods, up to the first
\* addForAnalysis of analyzeInterface.
StartRoot ==
    /\ pc = "roots"
    /\ root.idx <= Len(rt.resolvedExtTypes)
    /\ LET resType == RootType(rt, root.idx)
           info == PkgPathAndName(resType.pkgPath, resType.at.name)
       IN IF Contains(ta.typeInfo, info)
          THEN /\ root' = [idx |-> root.idx + 1, iface |-> NoType]
               /\ UNCHANGED <<ta, pc>>
          ELSE IF ~IsInterface(world, resType.rt)
          THEN /\ pc' = "failed"
               /\ UNCHANGED <<ta, root>>
          ELSE /\ ta' = [ta EXCEPT !.typeQueue = AddForAnalysis(@, info, resType.rt)]
               /\ root' = [root EXCEPT !.iface = resType.rt]
               /\ pc' = "queue"
    /\ UNCHANGED <<world, thisImports, pi, rt, buf, outFile>>
    /\ UNCHANGED Others

\* One turn of the loop of analyzeInterface: the embedded types and the
\* explicit methods are read from iface, the interface analyzeInterface was
\* called with.
QueueStep ==
    /\ pc = "queue"
    /\ Len(ta.typeQueue) > 0
    /\ LET pt == Head(ta.typeQueue)
           popped == [ta EXCEPT !.typeQueue = Tail(@)]
       IN IF Contains(ta.typeInfo, pt.info)
          THEN /\ ta' = popped
               /\ pc' = pc
          ELSE LET e == AnalyzeEmbeddedTypes(popped, world,
                                             EmbeddedTypes(world, root.iface), 1, <<>>)
               IN IF e.err
                  THEN /\ ta' = [popped EXCEPT !.imports = e.imports,
                                               !.typeQueue = e.typeQueue]
                       /\ pc' = "failed"
                  ELSE LET m == AnalyzeExplicitMethods(e.imports, ta.thisPkgPath,
                                    ExplicitMethods(world, root.iface), 1, <<>>)
                       IN IF m.err
                          THEN /\ ta' = [popped EXCEPT !.imports = m.imports,
                                                       !.typeQueue = e.typeQueue]
                               /\ pc' = "failed"
                          ELSE /\ ta' = [popped EXCEPT
                                            !.imports = m.imports,
                                            !.typeQueue = e.typeQueue,
                                            !.typeInfo = Insert(@, pt.info, e.infos, m.infos)]
                               /\ pc' = pc
    /\ UNCHANGED <<world, thisImports, pi, rt, root, buf, outFile>>
    /\ UNCHANGED Others

\* The loop of analyzeInterface ends: ta.typeQueue = nil, return nil.
QueueEmpty ==
    /\ pc = "queue"
    /\ Len(ta.typeQueue) = 0
    /\ ta' = [ta EXCEPT !.typeQueue = <<>>]
    /\ root' = [idx |-> root.idx + 1, iface |-> NoType]
    /\ pc' = "roots"
    /\ UNCHANGED <<world, thisImports, pi, rt, buf, outFile>>
    /\ UNCHANGED Others

\* ta.analyze returns nil.
AnalyzeDone ==
    /\ pc = "roots"
    /\ root.idx > Len(rt.resolvedExtTypes)
    /\ pc' = "printImports"
    /\ UNCHANGED <<world, thisImports, pi, rt, ta, root, buf, outFile>>
    /\ UNCHANGED Others

\* A part of the generated text as the print functions lay it out.
Section(kind, body) == [kind |-> kind, body |-> body, layout |-> "raw"]

\* The header comment, the package clause and printImports(buf, ta).
DoPrintImports ==
    /\ pc = "printImports"
    /\ buf' = buf \o << Section("header", <<>>),
                        Section("package", <<rt.thisPkgName>>),
                        Section("imports", PrintImports(ta.imports)) >>
    /\ pc' = "printTypes"
    /\ UNCHANGED <<world, thisImports, pi, rt, ta, root, outFile>>
    /\ UNCHANGED Others

\* The types of the resolved extensions, as the input names them.
ExtATypes(resolved) ==
    [k \in 1..Len(resolved.resolvedExtTypes) |-> resolved.resolvedExtTypes[k].at]

DoPrintTypes ==
    /\ pc = "printTypes"
    /\ buf' = Append(buf, Section("types",
                  PrintTypes(rt.resolvedBaseType.at, ExtATypes(rt), pi.extraFields)))
    /\ pc' = "printVars"
    /\ UNCHANGED <<world, thisImports, pi, rt, ta, root, outFile>>
    /\ UNCHANGED Others

\* The vars written before the types are, a second time.
DoPrintVarsEarly ==
    /\ pc = "printTypes"
    /\ buf' = Append(buf, Section("vars", PrintVars(rt.resolvedBaseType.at, ExtATypes(rt))))
    /\ pc' = "printVars"
    /\ UNCHANGED <<world, thisImports, pi, rt, ta, root, outFile>>
    /\ UNCHANGED Others

DoPrintVars ==
    /\ pc = "printVars"
    /\ buf' = Append(buf, Section("vars", PrintVars(rt.resolvedBaseType.at, ExtATypes(rt))))
    /\ pc' = "printImpls"
    /\ UNCHANGED <<world, thisImports, pi, rt, ta, root, outFile>>
    /\ UNCHANGED Others

\* printImpls: the process ends with exit code 2 when mustGet finds no entry
\* and when the recursion does not end.
DoPrintImpls ==
    /\ pc = "printImpls"
    /\ LET r == PrintImpls(rt, ta.typeInfo, pi.prefix, pi.extraFields) IN
        IF r.fail # ""
        THEN /\ pc' = "crashed"
             /\ buf' = buf
        ELSE /\ pc' = "printNewFunc"
             /\ buf' = Append(buf, Section("impls", r.out))
    /\ UNCHANGED <<world, thisImports, pi, rt, ta, root, outFile>>
    /\ UNCHANGED Others

DoPrintNewFunc ==
    /\ pc = "printNewFunc"
    /\ buf' = Append(buf, Section("newfunc",
                  PrintNewFunc(pi.prefix, rt.resolvedBaseType.at, ExtATypes(rt),
                               pi.extraFields)))
    /\ pc' = "write"
    /\ UNCHANGED <<world, thisImports, pi, rt, ta, root, outFile>>
    /\ UNCHANGED Others

\* Whether a name of an extra field is a Go identifier (the names are taken
\* from the flag as they are).
IsIdentifier(s) == s \notin {"", "two words"}

\* format.Source(buf.Bytes()): the text laid out by gofmt, or an error when
\* the text does not parse, which it does not when the name of a struct
\* field is no identifier.
FormatSource(b) ==
    IF \A i \in 1..Len(b) : b[i].kind = "types" =>
           \A k \in 1..Len(b[i].body) : \A j \in 1..Len(b[i].body[k].fields) :
               IsIdentifier(b[i].body[k].fields[j].name)
    THEN [src |-> [k \in 1..Len(b) |-> [b[k] EXCEPT !.layout = "gofmt"]], err |-> FALSE]
    ELSE [src |-> <<>>, err |-> TRUE]

\* Whether ioutil.WriteFile can create the file: its directory exists.
Writable(path) == path # "nodir/wrappers.go"

\* format.Source, the warning and ioutil.WriteFile(pi.outFile, src, 0644).
WriteFileIgnoringFormatError ==
    /\ pc = "write"
    /\ LET f == FormatSource(buf) IN
          IF f.err
          THEN /\ pc' = "failed"
               /\ UNCHANGED <<outFile, stderr>>
          ELSE /\ stderr' = stderr
               /\ IF Writable(pi.outFile)
                  THEN outFile' = f.src /\ pc' = "done"
                  ELSE outFile' = outFile /\ pc' = "failed"
    /\ UNCHANGED <<world, thisImports, pi, rt, ta, root, buf>>
    /\ UNCHANGED <<cg, produced, lastRet, extra, nfIn, nfTypes, nfNew, npc, rtX, rtPos, rtRes,
                   prev, view, ss, rd, call>>

WriteFile ==
    /\ pc = "write"
    /\ LET f == FormatSource(buf)
           src == IF f.err THEN buf ELSE f.src
       IN /\ stderr' = IF f.err THEN Append(stderr, "WARN") ELSE stderr
          /\ IF Writable(pi.outFile)
             THEN outFile' = src /\ pc' = "done"
             ELSE outFile' = outFile /\ pc' = "failed"
    /\ UNCHANGED <<world, thisImports, pi, rt, ta, root, buf>>
    /\ UNCHANGED <<cg, produced, lastRet, extra, nfIn, nfTypes, nfNew, npc, rtX, rtPos, rtRes,
                   prev, view, ss, rd, call>>

Next ==
    \/ DoResolveTypes
    \/ DoAnalyzeForImports
    \/ StartRoot
    \/ QueueStep
    \/ QueueEmpty
    \/ AnalyzeDone
    \/ DoPrintImports
    \/ DoPrintTypes
    \/ DoPrintVars
    \/ DoPrintImpls
    \/ DoPrintNewFunc
    \/ WriteFile

Spec == Init /\ [][Next]_vars

\* The generator is run a second time on the same flags, input file and type
\* graph once the first run has ended (written the file, reported an error
\* or crashed); the output file is the one the first run left.
RunAgain ==
    /\ pc \in {"done", "failed", "crashed"}
    /\ ~prev.ran
    /\ prev' = [ran |-> TRUE, exit |-> pc, outFile |-> outFile]
    /\ rt' = NoResolvedTypes
    /\ ta' = NoAnalysis
    /\ root' = [idx |-> 0, iface |-> NoType]
    /\ pc' = "resolve"
    /\ buf' = <<>>
    /\ stderr' = <<>>
    /\ UNCHANGED <<world, thisImports, pi, outFile>>
    /\ UNCHANGED <<cg, produced, lastRet, extra, nfIn, nfTypes, nfNew, npc, rtX, rtPos, rtRes,
                   view, ss, rd, call>>

NextTwoRuns ==
    \/ Next
    \/ RunAgain

SpecTwoRuns == Init /\ [][NextTwoRuns]_vars

(***************************************************************************)
(* mainErr from its first statement: flag parsing, validation and input    *)
(* parsing come before the stages above. pi holds the values the flags     *)
(* parse to; the parsed input is in use from pc = "resolve" on.            *)
(***************************************************************************)
\* The text of a type flag, as strings.Split(s, ".") cuts it.
ATypeText(at) == IF at.pkgName = "" THEN <<at.name>> ELSE <<at.pkgName, at.name>>

\* strToAType on a text cut at its dots: [at, err].
StrToAType(parts) ==
    IF parts = <<"">> THEN [at |-> AType("", ""), err |-> TRUE]
    ELSE IF Len(parts) = 1 THEN [at |-> AType("", parts[1]), err |-> FALSE]
    ELSE IF Len(parts) = 2
    THEN IF parts[1] = "" \/ parts[2] = ""
         THEN [at |-> AType("", ""), err |-> TRUE]
         ELSE [at |-> AType(parts[1], parts[2]), err |-> FALSE]
    ELSE [at |-> AType("", ""), err |-> TRUE]

\* isValidFunctionName on the characters of a name.
IsValidFunctionName(s) ==
    /\ s # <<>>
    /\ s[1] \in {"a", "Z", "_"}
    /\ \A idx \in 2..Len(s) : s[idx] \in {"a", "Z", "9", "_"}

\* What the run is started with: whether flag.Parse accepts os.Args, the
\* texts of -basetype, -prefix, -newfuncname and -infile, GOFILE, and what
\* os.Stat finds at the input file.
GoodCmdLine(at) ==
    [parse |-> "ok", baseType |-> ATypeText(at), prefix |-> <<"a", "Z">>,
     newFuncName |-> <<"a", "Z", "9">>, inFile |-> "in.go", gofile |-> "",
     stat |-> "regular"]

CmdLines(at) ==
    LET good == GoodCmdLine(at) IN
    { good, [good EXCEPT !.inFile = "", !.gofile = "in.go"] }
    \cup { [good EXCEPT !.parse = p] : p \in {"help", "error"} }
    \cup { [good EXCEPT !.baseType = b] :
             b \in { <<"">>, <<"a", "b", "c">>, <<"", "T1">>, <<"drv", "">> } }
    \cup { [good EXCEPT !.prefix = s] : s \in { <<>>, <<"9", "a">>, <<"a", "-">> } }
    \cup { [good EXCEPT !.newFuncName = s] : s \in { <<>>, <<"a", "-", "Z">> } }
    \cup { [good EXCEPT !.inFile = ""] }
    \cup { [good EXCEPT !.stat = s] : s \in {"missing", "directory"} }

\* A command line that stops the run before the types are looked at is
\* paired with the runs on T1 alone.
InitMain ==
    /\ CombIdle
    /\ NewIdle
    /\ InitGraphs \/ InitAliases
    /\ rt = NoResolvedTypes
    /\ ta = NoAnalysis
    /\ root = [idx |-> 0, iface |-> NoType]
    /\ pc = "flags"
    /\ buf = <<>>
    /\ outFile = <<>>
    /\ prev = NoRun
    /\ stderr = <<>>
    /\ ViewIdle
    /\ SetIdle
    /\ RenderIdle
    /\ \E cl \in CmdLines(pi.baseType) :
          /\ call = [fn |-> "mainErr", fi |-> cl]
          /\ cl # GoodCmdLine(pi.baseType) =>
                /\ pi.baseType.name = "T1"
                /\ pi.extTypes = <<>>
                /\ pi.extraFields = <<>>
                /\ pi.imports = <<>>

MainFrame ==
    /\ UNCHANGED <<world, thisImports, pi, rt, ta, root, buf, outFile>>
    /\ UNCHANGED <<cg, produced, lastRet, extra, nfIn, nfTypes, nfNew, npc, rtX, rtPos, rtRes,
                   prev, view, stderr, ss, rd>>

\* fi.parseFlagsAndEnvironment(flagset, os.Args[1:], os.Environ())
ParseFlagsAndEnvironment ==
    /\ pc = "flags"
    /\ IF call.fi.parse # "ok"
       THEN pc' = "failed" /\ call' = call
       ELSE /\ pc' = "validate"
            /\ call' = [call EXCEPT !.fi.inFile = IF @ = "" THEN call.fi.gofile ELSE @]
    /\ MainFrame

\* A mainErr that goes on when ensureValid returns an error.
EnsureValidIgnored ==
    /\ pc = "validate"
    /\ pc' = "parse"
    /\ call' = call
    /\ MainFrame

\* fi.ensureValid()
EnsureValid ==
    /\ pc = "validate"
    /\ pc' = IF \/ call.fi.baseType = <<"">>
                \/ call.fi.prefix = <<>>
                \/ call.fi.newFuncName = <<>>
                \/ call.fi.inFile = ""
                \/ call.fi.stat # "regular"
             THEN "failed" ELSE "parse"
    /\ call' = call
    /\ MainFrame

\* pi.parseInput(fi)
ParseInput ==
    /\ pc = "parse"
    /\ pc' = IF \/ StrToAType(call.fi.baseType).err
                \/ ~IsValidFunctionName(call.fi.prefix)
                \/ ~IsValidFunctionName(call.fi.newFuncName)
             THEN "failed" ELSE "resolve"
    /\ call' = call
    /\ MainFrame

NextMain ==
    \/ ParseFlagsAndEnvironment
    \/ EnsureValid
    \/ ParseInput
    \/ Next

SpecMain == InitMain /\ [][NextMain]_vars

(***************************************************************************)
(* The analysis seen one call of analyzeResolvedTypeForImports at a time.  *)
(***************************************************************************)
\* The resolved types analyzeForImports visits, in its order.
Visitors == <<rt.resolvedBaseType>> \o rt.resolvedExtTypes \o rt.resolvedEfTypes

\* analyze up to the call of analyzeForImports; root.idx counts the visitors
\* analyzeForImports is done with.
BeginImports ==
    /\ pc = "analyze"
    /\ ta' = [ta EXCEPT !.thisPkgPath = rt.thisPkgPath]
    /\ pc' = IF ImportsMap(pi.imports, 1, EmptyMap).dup THEN "failed" ELSE "visit"
    /\ root' = [idx |-> 0, iface |-> NoType]
    /\ UNCHANGED <<world, thisImports, pi, rt, buf, outFile>>
    /\ UNCHANGED Others

\* One call of analyzeResolvedTypeForImports by analyzeForImports.
VisitImport ==
    /\ pc = "visit"
    /\ root.idx < Len(Visitors)
    /\ LET r == AnalyzeResolvedTypeForImports(ta.imports, ta.thisPkgPath,
                                              Visitors[root.idx + 1],
                                              ImportsMap(pi.imports, 1, EmptyMap).map)
       IN /\ ta' = [ta EXCEPT !.imports = r.imports]
          /\ pc' = IF r.err THEN "failed" ELSE "visit"
    /\ root' = [root EXCEPT !.idx = @ + 1]
    /\ UNCHANGED <<world, thisImports, pi, rt, buf, outFile>>
    /\ UNCHANGED Others

\* analyzeForImports returns nil.
EndImports ==
    /\ pc = "visit"
    /\ root.idx = Len(Visitors)
    /\ pc' = "roots"
    /\ root' = [idx |-> 0, iface |-> NoType]
    /\ UNCHANGED <<world, thisImports, pi, rt, ta, buf, outFile>>
    /\ UNCHANGED Others

NextVisit ==
    \/ DoResolveTypes
    \/ BeginImports
    \/ VisitImport
    \/ EndImports
    \/ StartRoot
    \/ QueueStep
    \/ QueueEmpty
    \/ AnalyzeDone

SpecVisit == Init /\ [][NextVisit]_vars

\* The runs whose walk starts from T1 alone, over every graph of the four
\* interfaces and every assignment of packages.
InitQueue ==
    /\ Init
    /\ pi.baseType.name = "T1"
    /\ pi.extTypes = <<>>
    /\ pi.extraFields = <<>>
    /\ pi.imports = <<>>

\* The analysis as a sequential program: a step that can be taken is taken.
SpecQueueFair == InitQueue /\ [][NextVisit]_vars /\ WF_vars(NextVisit)

(***************************************************************************)
(* The enumerator with its index buffer in memory: slices are headers      *)
(* (array, length) over backing arrays, and a consumer keeps the slices    *)
(* Get returned.                                                           *)
(***************************************************************************)
\* A slice header: arr = 0 is the array of no element ([]int{} and nil).
Slice(arr, len) == [arr |-> arr, len |-> len]

\* The elements a slice shows now.
ReadSlice(mem, s) == IF s.len = 0 THEN <<>> ELSE SubSeq(mem[s.arr], 1, s.len)

\* cap(s)
Cap(mem, s) == IF s.arr = 0 THEN 0 ELSE Len(mem[s.arr])

\* a[1..Len(vals)] = vals
WriteArray(a, vals) == [j \in 1..Len(a) |-> IF j <= Len(vals) THEN vals[j] ELSE a[j]]

\* The capacities append may give the array it allocates for len + 1
\* elements: how much it grows is left to the implementation.
NewCaps(len) == {len + 1, 2 * (len + 1)}

\* (*CombGen).Next on the buffer in memory: every [mem, idxs, idxsNil, ret]
\* the call can leave. The increments write into the array of g.idxs; append
\* writes into it too when its capacity suffices and allocates otherwise.
ViewNextResults(v) ==
    LET old == ReadSlice(v.mem, v.idxs)
        r == CombGenNext([n |-> v.n, idxs |-> old, idxsNil |-> v.idxsNil])
        new == r.g.idxs
    IN IF Len(new) = Len(old)
       THEN { [mem |-> IF v.idxs.len = 0 THEN v.mem
                       ELSE [v.mem EXCEPT ![v.idxs.arr] = WriteArray(@, new)],
               idxs |-> v.idxs, idxsNil |-> r.g.idxsNil, ret |-> r.ret] }
       ELSE IF Cap(v.mem, v.idxs) > Len(old)
       THEN { [mem |-> [v.mem EXCEPT ![v.idxs.arr] = WriteArray(@, new)],
               idxs |-> Slice(v.idxs.arr, Len(new)), idxsNil |-> FALSE, ret |-> r.ret] }
       ELSE { [mem |-> Append(v.mem, WriteArray([j \in 1..c |-> 0], new)),
               idxs |-> Slice(Len(v.mem) + 1, Len(new)), idxsNil |-> FALSE, ret |-> r.ret]
              : c \in NewCaps(Len(old)) }

\* (*CombGen).Get: the header of g.idxs itself, over the same memory.
ViewGetCopy(v) ==
    [mem |-> Append(v.mem, ReadSlice(v.mem, v.idxs)),
     slice |-> IF v.idxs.len = 0 THEN v.idxs ELSE Slice(Len(v.mem) + 1, v.idxs.len)]

ViewGet(v) == [mem |-> v.mem, slice |-> v.idxs]

InitView ==
    /\ CombIdle
    /\ NewIdle
    /\ GenIdle
    /\ SetIdle
    /\ RenderIdle
    /\ CallIdle
    /\ \E n \in 0..MaxViewN :
          view = [n |-> n, mem |-> <<>>, idxs |-> Slice(0, 0), idxsNil |-> TRUE,
                  ret |-> "none", kept |-> <<>>]

\* for comb.Next() { kept = append(kept, comb.Get()) }: one turn; the
\* consumer also notes the subset each slice showed when it got it.
ViewStep ==
    /\ view.ret # "false"
    /\ \E r \in ViewNextResults(view) :
          IF r.ret
          THEN LET g == ViewGet([view EXCEPT !.mem = r.mem, !.idxs = r.idxs])
               IN view' = [view EXCEPT
                              !.mem = g.mem, !.idxs = r.idxs, !.idxsNil = r.idxsNil,
                              !.ret = "true",
                              !.kept = Append(@, [slice |-> g.slice,
                                                  subset |-> ReadSlice(g.mem, g.slice)])]
          ELSE view' = [view EXCEPT !.mem = r.mem, !.idxs = r.idxs,
                                    !.idxsNil = r.idxsNil, !.ret = "false"]
    /\ UNCHANGED combVars
    /\ UNCHANGED newVars
    /\ UNCHANGED genVars
    /\ UNCHANGED <<stderr, ss, rd, call>>

NextView == ViewStep

SpecView == InitView /\ [][NextView]_vars

(***************************************************************************)
(* StringSet (stringset.go): a Go map from strings to struct{}, modelled   *)
(* as a function from its keys to the empty struct.  A range over a map    *)
(* visits the keys in an order the language does not fix.                  *)
(***************************************************************************)
\* The strings put into the sets, and the order of sort.Strings on them.
Strings == {"foo", "bar", "baz"}
StrRank(s) == CASE s = "bar" -> 1 [] s = "baz" -> 2 [] s = "foo" -> 3

\* The variables holding a StringSet.
SetVars == 1..2

\* The slices handed to AddSlice and AddSome: duplicates allowed.
StringSlices == UNION { [1..n -> Strings] : n \in 0..MaxSlice }

\* StringSet{}
NewStringSet == [k \in {} |-> <<>>]

\* The orders in which for str := range m may visit the keys of m.
RangeOrders(m) ==
    { q \in [1..Cardinality(DOMAIN m) -> DOMAIN m] :
        \A i, j \in 1..Cardinality(DOMAIN m) : i # j => q[i] # q[j] }

\* s[str] = struct{}{}
AddReplacing(s, str) == [k \in {str} |-> <<>>]

Add(s, str) == [k \in DOMAIN s \cup {str} |-> <<>>]

\* for _, str := range other { s.Add(str) }
RECURSIVE AddSlice(_, _)
AddSlice(s, other) ==
    IF Len(other) = 0 THEN s
    ELSE AddSlice(Add(s, Head(other)), Tail(other))

AddSome(s, strs) == AddSlice(s, strs)

\* for str := range other { s.Add(str) }: the receiver after each order of
\* the range.
AddSet(s, other) == { AddSlice(s, q) : q \in RangeOrders(other) }

\* _, ok := s[str]
Has(s, str) == str \in DOMAIN s

\* len(s)
SetLen(s) == Cardinality(DOMAIN s)

\* The loop of Diff over the keys q of the receiver still to visit.
RECURSIVE DiffLoop(_, _, _)
DiffLoop(q, other, diff) ==
    IF Len(q) = 0 THEN diff
    ELSE DiffLoop(Tail(q), other,
                  IF ~Has(other, Head(q)) THEN Add(diff, Head(q)) ELSE diff)

Diff(s, other) == { DiffLoop(q, other, NewStringSet) : q \in RangeOrders(s) }

\* sort.Strings by insertion.
InsertSorted(x, sorted) ==
    LET k == Cardinality({ i \in 1..Len(sorted) : StrRank(sorted[i]) <= StrRank(x) })
    IN SubSeq(sorted, 1, k) \o <<x>> \o SubSeq(sorted, k + 1, Len(sorted))

RECURSIVE SortStrings(_)
SortStrings(q) ==
    IF Len(q) = 0 THEN <<>>
    ELSE InsertSorted(Head(q), SortStrings(Tail(q)))

\* The slice ToSlice returns after each order of the range.
ToSlice(s) == { SortStrings(q) : q \in RangeOrders(s) }

\* The result of the last call: which method, on which variable, with which
\* argument, and what it returned.
SetRet(op, recv, str, other, val) ==
    [op |-> op, recv |-> recv, str |-> str, other |-> other,
     bool |-> IF op = "Has" THEN val ELSE FALSE,
     int |-> IF op = "Len" THEN val ELSE 0,
     set |-> IF op = "Diff" THEN val ELSE NewStringSet,
     slice |-> IF op = "ToSlice" THEN val ELSE <<>>]

NoSetRet == SetRet("none", 0, "", 0, FALSE)

\* ss.added keeps, for each variable, the strings the calls have added to it.
InitSet ==
    /\ CombIdle
    /\ NewIdle
    /\ GenIdle
    /\ ViewIdle
    /\ RenderIdle
    /\ CallIdle
    /\ ss = [sets |-> [h \in SetVars |-> NewStringSet],
             added |-> [h \in SetVars |-> {}],
             ret |-> NoSetRet]

SetFrame ==
    /\ UNCHANGED combVars
    /\ UNCHANGED newVars
    /\ UNCHANGED genVars
    /\ UNCHANGED <<view, stderr, rd, call>>

\* s.Add(str)
DoAdd ==
    /\ \E h \in SetVars, str \in Strings :
          ss' = [ss EXCEPT !.sets[h] = Add(@, str),
                           !.added[h] = @ \cup {str},
                           !.ret = NoSetRet]
    /\ SetFrame

\* s.AddSome(strs...)
DoAddSome ==
    /\ \E h \in SetVars, strs \in StringSlices :
          ss' = [ss EXCEPT !.sets[h] = AddSome(@, strs),
                           !.added[h] = @ \cup { strs[i] : i \in 1..Len(strs) },
                           !.ret = SetRet("AddSome", h, "", 0, FALSE)]
    /\ SetFrame

\* s.AddSlice(other)
DoAddSlice ==
    /\ \E h \in SetVars, other \in StringSlices :
          ss' = [ss EXCEPT !.sets[h] = AddSlice(@, other),
                           !.added[h] = @ \cup { other[i] : i \in 1..Len(other) },
                           !.ret = SetRet("AddSlice", h, "", 0, FALSE)]
    /\ SetFrame

\* s.AddSet(other), other being any variable, s itself included.
DoAddSet ==
    /\ \E h \in SetVars, o \in SetVars :
          \E r \in AddSet(ss.sets[h], ss.sets[o]) :
              ss' = [ss EXCEPT !.sets[h] = r,
                               !.added[h] = @ \cup ss.added[o],
                               !.ret = SetRet("AddSet", h, "", o, FALSE)]
    /\ SetFrame

\* s.Has(str)
DoHas ==
    /\ \E h \in SetVars, str \in Strings :
          ss' = [ss EXCEPT !.ret = SetRet("Has", h, str, 0, Has(ss.sets[h], str))]
    /\ SetFrame

\* s.Len()
DoLen ==
    /\ \E h \in SetVars :
          ss' = [ss EXCEPT !.ret = SetRet("Len", h, "", 0, SetLen(ss.sets[h]))]
    /\ SetFrame

\* s.Diff(other)
DoDiff ==
    /\ \E h \in SetVars, o \in SetVars :
          \E d \in Diff(ss.sets[h], ss.sets[o]) :
              ss' = [ss EXCEPT !.ret = SetRet("Diff", h, "", o, d)]
    /\ SetFrame

\* s.ToSlice()
DoToSlice ==
    /\ \E h \in SetVars :
          \E sl \in ToSlice(ss.sets[h]) :
              ss' = [ss EXCEPT !.ret = SetRet("ToSlice", h, "", 0, sl)]
    /\ SetFrame

NextSet ==
    \/ DoAdd
    \/ DoAddSome
    \/ DoAddSlice
    \/ DoAddSet
    \/ DoHas
    \/ DoLen
    \/ DoDiff
    \/ DoToSlice

SpecSet == InitSet /\ [][NextSet]_vars

(***************************************************************************)
(* Rendering of types: typeToStr on a type of go/types, then the analysis  *)
(* and the emission of an interface method M(p T) with that type, a        *)
(* variadic method M(p ...E) when T is the slice []E of its last parameter.*)
(***************************************************************************)
\* The types without components, the three the renderer rejects included.
RenderLeaves ==
    { BasicType("int"), NamedType(DrvPath, "V"), TypesStruct, TypesInterface,
      TypesTuple(<<BasicType("int")>>) }

\* The types with the component t.
RenderWrappers(t) ==
    { CompositeType("Pointer", <<t>>), CompositeType("Array", <<t>>),
      CompositeType("Slice", <<t>>),
      CompositeType("Map", <<BasicType("string"), t>>),
      CompositeType("Map", <<t, BasicType("int")>>),
      TypesChan("SendRecv", t), TypesChan("RecvOnly", t), TypesChan("SendOnly", t),
      TypesSignature(<<t>>, <<>>, FALSE),
      TypesSignature(<<>>, <<t>>, FALSE),
      TypesSignature(<<BasicType("int")>>, <<t, NamedType("", "error")>>, FALSE),
      TypesSignature(<<BasicType("string"), CompositeType("Slice", <<t>>)>>, <<>>, TRUE) }

\* The types nested up to depth d.
RECURSIVE RenderTypes(_)
RenderTypes(d) ==
    IF d = 0 THEN RenderLeaves
    ELSE LET s == RenderTypes(d - 1) IN s \cup UNION { RenderWrappers(t) : t \in s }

\* The one explicit method of the interface T made of the type.
RenderMethod ==
    [name |-> "M",
     params |-> << [name |-> DeclaredName("p"), type |-> rd.type] >>,
     results |-> <<>>,
     variadic |-> rd.variadic]

RenderInfo == PkgPathAndName("", "T")

InitRender ==
    /\ CombIdle
    /\ NewIdle
    /\ GenIdle
    /\ ViewIdle
    /\ SetIdle
    /\ CallIdle
    /\ \E t \in RenderTypes(MaxDepth), v \in BOOLEAN :
          /\ v => t.kind = "Slice"
          /\ rd = [type |-> t, variadic |-> v, step |-> "type",
                   str |-> [str |-> EmptyStr, err |-> FALSE],
                   infos |-> [infos |-> <<>>, err |-> FALSE],
                   out |-> <<>>]

RenderFrame ==
    /\ UNCHANGED combVars
    /\ UNCHANGED newVars
    /\ UNCHANGED genVars
    /\ UNCHANGED <<view, stderr, ss, call>>

\* ta.typeToStr(vType)
DoTypeToStr ==
    /\ rd # <<>>
    /\ rd.step = "type"
    /\ LET r == TypeToStr(EmptyMap, ThisPkgPath, rd.type) IN
       rd' = [rd EXCEPT !.step = "rendered", !.str = [str |-> r.str, err |-> r.err]]
    /\ RenderFrame

\* ta.analyzeExplicitMethods(iface) for the interface with the method.
DoAnalyzeExplicitMethods ==
    /\ rd # <<>>
    /\ rd.step = "rendered"
    /\ LET m == AnalyzeExplicitMethods(EmptyMap, ThisPkgPath, <<RenderMethod>>, 1, <<>>) IN
       rd' = [rd EXCEPT !.step = "analyzed", !.infos = [infos |-> m.infos, err |-> m.err]]
    /\ RenderFrame

\* printExplicitImplsOfInterface for the entry of the interface.
DoPrintExplicitImpls ==
    /\ rd # <<>>
    /\ rd.step = "analyzed"
    /\ ~rd.infos.err
    /\ rd' = [rd EXCEPT
                !.step = "printed",
                !.out = PrintExplicitImplsOfInterface(
                            Insert(<<>>, RenderInfo, <<>>, rd.infos.infos), RenderInfo,
                            [tbn |-> Tbn(StringNoDot(AType("", "T")), 0), prefix |-> "real",
                             extraFields |-> <<>>])]
    /\ RenderFrame

NextRender ==
    \/ DoTypeToStr
    \/ DoAnalyzeExplicitMethods
    \/ DoPrintExplicitImpls

SpecRender == InitRender /\ [][NextRender]_vars

(***************************************************************************)
(* Parsing of an extra field: the value of the flag is a text, kept as the *)
(* sequence of its tokens; strToExtraField splits it at the commas and     *)
(* parser.ParseExpr turns the text of the type into an expression.         *)
(***************************************************************************)
\* A list of texts joined with commas.
RECURSIVE JoinComma(_)
JoinComma(texts) ==
    IF Len(texts) = 0 THEN <<>>
    ELSE IF Len(texts) = 1 THEN texts[1]
    ELSE texts[1] \o <<",">> \o JoinComma(Tail(texts))

\* The source text of a type expression.
RECURSIVE Source(_)
Source(a) ==
    CASE a.kind = "Ident" -> <<a.name>>
      [] a.kind = "SelectorExpr" -> <<a.pkg, ".", a.name>>
      [] a.kind = "ArrayType" ->
            (IF a.name = "" THEN <<"[", "]">> ELSE <<"[", a.name, "]">>) \o Source(a.kids[1])
      [] a.kind = "StarExpr" -> <<"*">> \o Source(a.kids[1])
      [] a.kind = "ChanType" -> <<"chan">> \o Source(a.kids[1])
      [] a.kind = "MapType" ->
            <<"map", "[">> \o Source(a.kids[1]) \o <<"]">> \o Source(a.kids[2])
      [] a.kind = "FuncType" ->
            LET params == a.kids[1].kids
                results == IF Len(a.kids) = 1 THEN <<>> ELSE a.kids[2].kids
            IN <<"func", "(">> \o JoinComma([k \in 1..Len(params) |-> Source(params[k])])
                  \o <<")">> \o
               (IF Len(results) = 0 THEN <<>>
                ELSE IF Len(results) = 1 THEN Source(results[1])
                ELSE <<"(">> \o JoinComma([k \in 1..Len(results) |-> Source(results[k])])
                        \o <<")">>)
      [] OTHER -> <<a.kind>>

\* The type expressions of the shapes the generator supports, nested up to
\* depth d.
AstLeaves == { AstIdent("int"), AstSelector("drv", "V") }

AstWrappers(t) ==
    { AstArray("", t), AstArray("3", t), AstNode("StarExpr", <<t>>),
      AstNode("ChanType", <<t>>), AstNode("MapType", <<AstIdent("string"), t>>),
      AstFunc(<<>>, <<>>), AstFunc(<<t>>, <<>>), AstFunc(<<t>>, <<AstIdent("error")>>),
      AstFunc(<<AstIdent("string"), t>>, <<>>),
      AstFunc(<<>>, <<t, AstIdent("error")>>) }

RECURSIVE AstShapes(_)
AstShapes(d) ==
    IF d = 0 THEN AstLeaves
    ELSE LET s == AstShapes(d - 1) IN s \cup UNION { AstWrappers(t) : t \in s }

\* strings.Split(s, ","): the texts between the commas.
RECURSIVE Split(_, _, _)
Split(s, k, cur) ==
    IF k > Len(s) THEN <<cur>>
    ELSE IF s[k] = "," THEN <<cur>> \o Split(s, k + 1, <<>>)
    ELSE Split(s, k + 1, Append(cur, s[k]))

\* parser.ParseExpr: the expression the text is the source of, an error when
\* the text is the source of none.
ParseExpr(text) ==
    IF \E a \in AstShapes(MaxAstDepth) : Source(a) = text
    THEN [expr |-> CHOOSE a \in AstShapes(MaxAstDepth) : Source(a) = text, err |-> FALSE]
    ELSE [expr |-> AstNode("BadExpr", <<>>), err |-> TRUE]

NoExtraField == [name |-> <<>>, typeStr |-> <<>>, expr |-> AstNode("BadExpr", <<>>)]

\* strToExtraField: [field, err].
StrToExtraField(s) ==
    IF Len(s) = 0 THEN [field |-> NoExtraField, err |-> TRUE]
    ELSE LET parts == Split(s, 1, <<>>) IN
         IF Len(parts) # 2 THEN [field |-> NoExtraField, err |-> TRUE]
         ELSE LET e == ParseExpr(parts[2]) IN
              IF e.err THEN [field |-> NoExtraField, err |-> TRUE]
              ELSE [field |-> [name |-> parts[1], typeStr |-> parts[2], expr |-> e.expr],
                    err |-> FALSE]

\* The value of -extrafields for the field extra of a type: "extra,<type>".
InitParse ==
    /\ CombIdle
    /\ NewIdle
    /\ GenIdle
    /\ ViewIdle
    /\ SetIdle
    /\ RenderIdle
    /\ \E a \in AstShapes(MaxAstDepth) :
          call = [fn |-> "strToExtraField", type |-> a,
                  in |-> <<"extra", ",">> \o Source(a),
                  step |-> "flag",
                  out |-> [field |-> NoExtraField, err |-> FALSE],
                  names |-> [types |-> <<>>, err |-> FALSE]]

CallFrame ==
    /\ UNCHANGED combVars
    /\ UNCHANGED newVars
    /\ UNCHANGED genVars
    /\ UNCHANGED <<view, stderr, ss, rd>>

\* parseInput: aef, err := strToExtraField(ef)
DoStrToExtraField ==
    /\ call # <<>>
    /\ call.fn = "strToExtraField"
    /\ call.step = "flag"
    /\ call' = [call EXCEPT !.step = IF StrToExtraField(call.in).err THEN "rejected"
                                     ELSE "parsed",
                            !.out = StrToExtraField(call.in)]
    /\ CallFrame

\* resolveTypes: efTypes, err := collectNamesFromAST(ef.expr)
DoCollectNames ==
    /\ call # <<>>
    /\ call.fn = "strToExtraField"
    /\ call.step = "parsed"
    /\ call' = [call EXCEPT !.step = "collected",
                            !.names = CollectNamesFromAST(call.out.field.expr)]
    /\ CallFrame

NextParse ==
    \/ DoStrToExtraField
    \/ DoCollectNames

SpecParse == InitParse /\ [][NextParse]_vars

(***************************************************************************)
(* Resolution of one symbolic type: getPkgPath, then resolveAnyType, for a *)
(* file importing some packages and a list of user-supplied imports.       *)
(***************************************************************************)
\* The interfaces T1..T4 declared by the local package, or by p/drv.
ResolveWorlds ==
    { [pkgOf |-> po, emb |-> << <<>>, <<>>, <<>>, <<>> >>] :
        po \in { <<ThisPkgPath, ThisPkgPath, ThisPkgPath, ThisPkgPath>>,
                 <<DrvPath, DrvPath, DrvPath, DrvPath>> } }

ResolveATypes ==
    { AType(a, n) : a \in {"", "drv", "d", "x"},
                    n \in {"T1", "V", "rune", "bool", "error", "Missing"} }

ResolveImports ==
    { <<>>,
      << AnImport("d", DrvPath) >>,
      << AnImport("d", Drv2Path), AnImport("d", DrvPath) >>,
      << AnImport("drv", Drv2Path) >>,
      << AnImport("", DrvPath) >>,
      << AnImport("x", "no/such") >> }

ResolveFileImports == { {DrvPath, CtxPath}, {CtxPath}, {DrvPath, Drv2Path} }

InitResolve ==
    /\ CombIdle
    /\ NewIdle
    /\ GenIdle
    /\ ViewIdle
    /\ SetIdle
    /\ RenderIdle
    /\ \E w \in ResolveWorlds, at \in ResolveATypes, im \in ResolveImports,
          fi \in ResolveFileImports :
          call = [fn |-> "resolveAnyType", world |-> w, at |-> at, imports |-> im,
                  pkgImports |-> fi, step |-> "type",
                  got |-> [path |-> "", err |-> FALSE],
                  out |-> [pkg |-> "", type |-> NoType, err |-> FALSE]]

\* pkgPath, err := getPkgPath(thisPkg, typeToResolve, pi.inFile, pi.imports)
DoGetPkgPath ==
    /\ call # <<>>
    /\ call.fn = "resolveAnyType"
    /\ call.step = "type"
    /\ \E got \in GetPkgPath(call.pkgImports, call.at, call.imports) :
          call' = [call EXCEPT !.step = "path", !.got = got]
    /\ CallFrame

\* The rest of resolveAnyType.
DoResolveAnyType ==
    /\ call # <<>>
    /\ call.fn = "resolveAnyType"
    /\ call.step = "path"
    /\ call' = [call EXCEPT !.step = "resolved",
                            !.out = ResolveAnyType(call.world, call.at, call.got)]
    /\ CallFrame

NextResolve ==
    \/ DoGetPkgPath
    \/ DoResolveAnyType

SpecResolve == InitResolve /\ [][NextResolve]_vars

(***************************************************************************)
(* The parameter names of one method: parametersFull.String and            *)
(* parametersNames.String on the parameters of a signature.                *)
(***************************************************************************)
\* The identifiers a signature declares; an identifier spelled param<n> is
\* the string generateName builds for n.
DeclaredNames ==
    { DeclaredName("a"), DeclaredName("b"), DeclaredName("_"),
      ParamName("param", 10), ParamName("param", 20), ParamName("param", 100) }

\* The parameter lists of a signature: all anonymous, or all named with
\* distinct identifiers, of which the blank one alone can repeat.
ParameterLists ==
    UNION { { [k \in 1..n |-> [name |-> DeclaredName(""),
                               typeStr |-> Str("Basic", "", "int", <<>>)]] }
            \cup
            { [k \in 1..n |-> [name |-> f[k], typeStr |-> Str("Basic", "", "int", <<>>)]] :
                f \in { g \in [1..n -> DeclaredNames] :
                          \A i, j \in 1..n :
                              (i # j /\ g[i] = g[j]) => g[i] = DeclaredName("_") } }
          : n \in 0..MaxParams }

InitNames ==
    /\ CombIdle
    /\ NewIdle
    /\ GenIdle
    /\ ViewIdle
    /\ SetIdle
    /\ RenderIdle
    /\ \E p \in ParameterLists :
          call = [fn |-> "parameters", parameters |-> p, step |-> "info",
                  full |-> <<>>, forwarded |-> <<>>]

\* fmt.Fprintf(w, "func (o%s *t%s) %s(%s)", ..., (parametersFull)(mi.parameters))
DoParametersFull ==
    /\ call # <<>>
    /\ call.fn = "parameters"
    /\ call.step = "info"
    /\ call' = [call EXCEPT !.step = "signature", !.full = ParametersFull(call.parameters)]
    /\ CallFrame

\* fmt.Fprintf(w, ", %s", (parametersNames)(mi.parameters))
DoParametersNames ==
    /\ call # <<>>
    /\ call.fn = "parameters"
    /\ call.step = "signature"
    /\ call' = [call EXCEPT !.step = "call",
                            !.forwarded = IF Len(call.parameters) > 0
                                          THEN ParametersNames(call.parameters)
                                          ELSE <<>>]
    /\ CallFrame

NextNames ==
    \/ DoParametersFull
    \/ DoParametersNames

SpecNames == InitNames /\ [][NextNames]_vars

(***************************************************************************)
(* Helpers of the properties of CombGen and of the constructor.            *)
(***************************************************************************)
StrictlyIncreasing(s) == \A i \in 1..(Len(s) - 1) : s[i] < s[i + 1]

LexLess(a, b) ==
    \E i \in 1..Len(a) :
        /\ i <= Len(b)
        /\ a[i] < b[i]
        /\ \A j \in 1..(i - 1) : a[j] = b[j]

\* b may follow a in the enumeration order: larger, or of the same size and
\* lexicographically later.
OrderedPair(a, b) ==
    \/ Len(a) < Len(b)
    \/ Len(a) = Len(b) /\ LexLess(a, b)

Exhausted == lastRet = "false"

\* C1: for every n in 0..10 the calls of Next that return true yield exactly
\* 2^n subsets of {0..n-1}, pairwise distinct; n = 0 yields the empty subset
\* only and n = 1 yields two.
C1_SubsetCount ==
    Exhausted =>
        /\ Len(produced) = 2 ^ cg.n
        /\ Cardinality({SeqRange(produced[k]) : k \in 1..Len(produced)}) = 2 ^ cg.n
        /\ \A k \in 1..Len(produced) :
            /\ SeqRange(produced[k]) \subseteq 0..(cg.n - 1)
            /\ Cardinality(SeqRange(produced[k])) = Len(produced[k])
        /\ cg.n = 0 => produced = << <<>> >>
        /\ cg.n = 1 => Len(produced) = 2

C1_Witness ==
    /\ Exhausted
    /\ cg.n = 10
    /\ Len(produced) = 1024

\* C2: the produced sequence starts with the empty subset, is non-decreasing
\* in size, lists one size as strictly increasing tuples in lexicographically
\* increasing order, and ends with (0,...,n-1); for n = 3 it is
\* (), (0), (1), (2), (0,1), (0,2), (1,2), (0,1,2).
C2_SubsetOrder ==
    /\ Len(produced) >= 1 => produced[1] = <<>>
    /\ Len(produced) >= 2 =>
        OrderedPair(produced[Len(produced) - 1], produced[Len(produced)])
    /\ Len(produced) >= 1 => StrictlyIncreasing(produced[Len(produced)])
    /\ Exhausted =>
        /\ \A k \in 1..(Len(produced) - 1) : OrderedPair(produced[k], produced[k + 1])
        /\ \A k \in 1..Len(produced) : StrictlyIncreasing(produced[k])
        /\ produced[Len(produced)] = [j \in 1..cg.n |-> j - 1]
        /\ cg.n = 3 =>
            produced = << <<>>, <<0>>, <<1>>, <<2>>, <<0, 1>>, <<0, 2>>, <<1, 2>>,
                          <<0, 1, 2>> >>

C2_Witness ==
    /\ Exhausted
    /\ cg.n = 3
    /\ Len(produced) = 8
    /\ produced[5] = <<0, 1>>
\* The extensions the interface i<tbn> of the types section embeds.
ExtsOfEntry(types, tbn, base) ==
    SeqRange(TypeEntry(types, tbn).embeds) \ {ATypeString(base)}

\* C3: for n > 0 and every set X of extensions x satisfies, the constructor
\* returns the struct of the subset that is exactly X, never one of a proper
\* subset of X.
C3_DispatchExact ==
    (npc = "returned" /\ Len(nfIn.exts) > 0) =>
        /\ \E e \in SeqRange(nfTypes) : e.struct = rtRes.struct
        /\ ExtsOfEntry(nfTypes, rtRes.struct, nfIn.base) = rtX

C3_Witness ==
    /\ npc = "returned"
    /\ Len(nfIn.exts) = 3
    /\ Cardinality(rtX) = 2
    /\ rtPos > 1

\* C4: with n > 0 the constructor tests i<k> for k = 2^n-1 down to 1, each
\* once and never 0, and returns t<0> after the switch; with n = 0 there is no
\* switch; every returned struct has r set to the input and every extra field
\* copied from the argument of the same name.
C4_DescendingCases ==
    LET n == Len(nfIn.exts)
        en == StringNoDot(nfIn.base)
    IN
    /\ npc \in {"emitted", "switch", "fallback", "returned"} =>
        /\ n > 0 =>
            /\ nfNew.hasSwitch
            /\ Len(nfNew.cases) = 2 ^ n - 1
            /\ \A k \in 1..Len(nfNew.cases) :
                /\ nfNew.cases[k].iface = Tbn(en, 2 ^ n - k)
                /\ nfNew.cases[k].struct = Tbn(en, 2 ^ n - k)
        /\ n = 0 => ~nfNew.hasSwitch /\ nfNew.cases = <<>>
        /\ nfNew.fallback.struct = Tbn(en, 0)
        /\ \A k \in 1..Len(nfNew.cases) :
            \E e \in SeqRange(nfTypes) : e.struct = nfNew.cases[k].struct
    /\ npc = "switch" => nfNew.cases[rtPos].iface = Tbn(en, 2 ^ n - rtPos)
    /\ npc = "fallback" => rtPos > Len(nfNew.cases) \/ ~nfNew.hasSwitch
    /\ npc = "returned" =>
        /\ rtRes.r = ArgValue(<<nfIn.prefix, nfIn.base.name>>)
        /\ Len(rtRes.fields) = Len(nfIn.extraFields)
        /\ \A j \in 1..Len(nfIn.extraFields) :
            /\ rtRes.fields[j].name = nfIn.extraFields[j].name
            /\ rtRes.fields[j].value = ArgValue(<<"", nfIn.extraFields[j].name>>)

C4_Witness ==
    /\ npc = "returned"
    /\ Len(nfIn.exts) = 2
    /\ Len(nfIn.extraFields) = 2
    /\ rtRes.struct.counter = 0
    /\ rtPos = 4

(***************************************************************************)
(* Properties of a run of the generator: helpers.                          *)
(***************************************************************************)
\* The interfaces reachable from the interfaces of S through embedding.
RECURSIVE Closure(_, _)
Closure(w, S) ==
    LET T == S \cup UNION { SeqRange(w.emb[i]) : i \in S } IN
    IF T = S THEN S ELSE Closure(w, T)

\* The interface of the type graph a resolved base or extension denotes
\* (0 when it denotes none of them).
RootSlot(resType) ==
    SlotOf(world, IF resType.pkgPath = "" THEN ThisPkgPath ELSE resType.pkgPath,
           resType.at.name)

RootSlots ==
    {RootSlot(rt.resolvedBaseType)} \cup
    {RootSlot(rt.resolvedExtTypes[j]) : j \in 1..Len(rt.resolvedExtTypes)}

HasSection(b, kind) == \E k \in 1..Len(b) : b[k].kind = kind
SectionBody(b, kind) == b[CHOOSE k \in 1..Len(b) : b[k].kind = kind].body

\* The subsets of the extensions in the order of emission.
Subsets == CombLoop(NewCombGen(Len(rt.resolvedExtTypes)), <<>>)

\* The interfaces the struct of subset number c wraps, directly or through
\* embedding.
SubsetClosure(c) ==
    Closure(world, {RootSlot(rt.resolvedBaseType)} \cup
                   {RootSlot(rt.resolvedExtTypes[Subsets[c][j] + 1]) :
                        j \in 1..Len(Subsets[c])})

\* How many methods named m the impls section gives the struct of subset c.
EmittedCount(c, m) ==
    LET impls == SectionBody(buf, "impls")
        tbn == Tbn(StringNoDot(rt.resolvedBaseType.at), c - 1)
    IN Cardinality({k \in 1..Len(impls) : impls[k].recv = tbn /\ impls[k].name = m})

\* C5: once the impls section is emitted for a base with extensions, the
\* method of every interface is emitted exactly once for each subset whose
\* interfaces reach, directly or through embedding, the declaring interface,
\* and not at all for the other subsets.
C5_EachMethodOncePerSubset ==
    (/\ HasSection(buf, "impls")
     /\ Len(rt.resolvedExtTypes) >= 1
     /\ 0 \notin RootSlots)
    => \A c \in 1..Len(Subsets), i \in Slots :
           EmittedCount(c, MName[i]) = IF i \in SubsetClosure(c) THEN 1 ELSE 0

\* C6: when an extension J directly embeds the base interface I, the method
\* of I is emitted exactly once for the struct of every subset containing J.
C6_BaseEmbeddedByExtension ==
    (/\ HasSection(buf, "impls")
     /\ 0 \notin RootSlots)
    => \A j \in 1..Len(rt.resolvedExtTypes) :
           RootSlot(rt.resolvedBaseType)
               \in SeqRange(world.emb[RootSlot(rt.resolvedExtTypes[j])])
           => \A c \in 1..Len(Subsets) :
                  (j - 1) \in SeqRange(Subsets[c])
                  => EmittedCount(c, MName[RootSlot(rt.resolvedBaseType)]) = 1

\* The package qualifiers written in an expression of an extra field's type.
RECURSIVE AstQualifiers(_)
AstQualifiers(a) ==
    (IF a.kind = "SelectorExpr" THEN {a.pkg} ELSE {})
        \cup UNION { AstQualifiers(a.kids[k]) : k \in 1..Len(a.kids) }

\* The package qualifiers written in a rendered type.
RECURSIVE StrQualifiers(_)
StrQualifiers(s) ==
    (IF s.pkg # "" THEN {s.pkg} ELSE {})
        \cup UNION { StrQualifiers(s.elems[k]) : k \in 1..Len(s.elems) }

\* The qualifiers of the types section: embedded interfaces and extra fields.
TypesQualifiers(out) ==
    LET ts == SectionBody(out, "types") IN
    UNION { {ts[k].embeds[j].pkgName : j \in 1..Len(ts[k].embeds)} \ {""}
            : k \in 1..Len(ts) }
    \cup UNION { UNION { AstQualifiers(ts[k].fields[j].typeStr) : j \in 1..Len(ts[k].fields) }
                 : k \in 1..Len(ts) }

\* The qualifiers of the signatures of the emitted methods.
SignatureQualifiers(out) ==
    LET ms == SectionBody(out, "impls") IN
    UNION { UNION { StrQualifiers(ms[k].params[j].typeStr) : j \in 1..Len(ms[k].params) }
            \cup UNION { StrQualifiers(ms[k].returnTypes[j]) : j \in 1..Len(ms[k].returnTypes) }
            : k \in 1..Len(ms) }

\* The names the imports section binds: the alias, or the declared name of
\* the package when the line has no alias.
ImportedNames(out) ==
    LET is == SectionBody(out, "imports") IN
    { IF is[k].name # "" THEN is[k].name ELSE PkgName(is[k].path) : k \in 1..Len(is) }

\* C7: in the file written, every package qualifier of the types section and
\* of the method signatures is the effective name of a line of the imports
\* section.
C7_QualifiersImported ==
    pc = "done"
    => (TypesQualifiers(outFile) \cup SignatureQualifiers(outFile)) \subseteq ImportedNames(outFile)

\* C8: a second run on the same flags, input file and type graph ends as the
\* first did and leaves the same output file.
C8_SameOutputTwice ==
    (prev.ran /\ pc \in {"done", "failed", "crashed"})
    => (pc = prev.exit /\ outFile = prev.outFile)

\* C9: the import table never has an entry for the path of the local package.
C9_NoLocalPathImported == ThisPkgPath \notin DOMAIN ta.imports

\* The keys of the InterfaceInfo table that denote the interface of slot i:
\* its package path with its name, and for a local interface also the empty
\* path with its name.
KeysOf(i) ==
    { k \in DOMAIN ta.typeInfo :
        /\ k[2] = TName[i]
        /\ \/ k[1] = world.pkgOf[i]
           \/ k[1] = "" /\ world.pkgOf[i] = ThisPkgPath }

AnalysisSucceeded ==
    pc \in {"printImports", "printTypes", "printVars", "printImpls", "printNewFunc",
            "write", "done", "crashed"}

\* C10: after the analysis has succeeded, every interface reachable from the
\* base or from an extension through embedding has exactly one key in the
\* InterfaceInfo table.
C10_OneEntryPerInterface ==
    (AnalysisSucceeded /\ 0 \notin RootSlots)
    => \A i \in Closure(world, RootSlots) : Cardinality(KeysOf(i)) = 1

\* The visitor analyzeForImports has just been through.
Visited == Visitors[root.idx]

\* Whether the step is a call of analyzeResolvedTypeForImports for a type of
\* an imported package whose path the table already holds.
LaterVisit ==
    /\ pc = "visit"
    /\ root'.idx = root.idx + 1
    /\ Visitors[root.idx + 1].pkgPath \in DOMAIN ta.imports

\* C11: no step of the analysis changes or removes an alias the import table
\* holds; a visitor whose path the table holds is accepted exactly when its
\* alias is the recorded one, or the recorded one is empty and its alias is
\* the declared name of the package, and the table is then, and on a
\* conflict, left as it was.
C11_AliasSetOnce ==
    [][/\ \A q \in DOMAIN ta.imports :
             q \in DOMAIN ta'.imports /\ ta'.imports[q] = ta.imports[q]
       /\ LaterVisit =>
             LET v == Visitors[root.idx + 1]
                 recorded == ta.imports[v.pkgPath]
             IN /\ (pc' # "failed") <=>
                       \/ v.at.pkgName = recorded
                       \/ recorded = "" /\ v.at.pkgName = PkgName(v.pkgPath)
                /\ ta'.imports = ta.imports]_vars

\* A second type of a path already recorded has been accepted.
C11_Witness ==
    /\ pc = "visit"
    /\ root.idx >= 2
    /\ \E j \in 1..(root.idx - 1) :
          /\ Visitors[j].pkgPath = Visited.pkgPath
          /\ Visited.pkgPath \notin {"", ThisPkgPath}

\* The subsets of {0..n-1} as ascending index sequences, and the k-th of them
\* (k from 0) in the order of enumeration: by size, then lexicographically.
AllSubsets(n) == { AscSeq(S) : S \in SUBSET (0..(n - 1)) }
KthSubset(n, k) ==
    CHOOSE a \in AllSubsets(n) :
        Cardinality({b \in AllSubsets(n) : OrderedPair(b, a)}) = k

\* The name of the struct (and of the interface) of subset number k.
StructOf(k) == Tbn(StringNoDot(rt.resolvedBaseType.at), k)

\* How many lines of the vars section assert that &t<tbn>{} satisfies at.
AssertionCount(at, tbn) ==
    LET vs == SectionBody(buf, "vars") IN
    Cardinality({i \in 1..Len(vs) : vs[i] = [type |-> ATypeString(at), struct |-> tbn]})

\* C12: in the vars section, for every subset index k, there is exactly one
\* assertion of t<B><k> for the base, exactly one for every extension of the
\* k-th subset and none for the other extensions; there is no other line.
C12_VarsPerSubset ==
    HasSection(buf, "vars") =>
        LET n == Len(rt.resolvedExtTypes)
            vs == SectionBody(buf, "vars")
        IN /\ \A k \in 0..(2 ^ n - 1) :
                /\ AssertionCount(rt.resolvedBaseType.at, StructOf(k)) = 1
                /\ \A j \in 1..n :
                      AssertionCount(rt.resolvedExtTypes[j].at, StructOf(k))
                          = IF (j - 1) \in SeqRange(KthSubset(n, k)) THEN 1 ELSE 0
           /\ \A i \in 1..Len(vs) : \E k \in 0..(2 ^ n - 1) : vs[i].struct = StructOf(k)

\* The vars section of a run with two extensions has been written.
C12_Witness ==
    /\ HasSection(buf, "vars")
    /\ Len(rt.resolvedExtTypes) = 2
    /\ Len(SectionBody(buf, "vars")) = 8

\* The extensions of the k-th subset, as the input names them, in order.
ExtsOfSubset(k) ==
    LET idxs == KthSubset(Len(rt.resolvedExtTypes), k) IN
    [j \in 1..Len(idxs) |-> ATypeString(rt.resolvedExtTypes[idxs[j] + 1].at)]

\* The methods a walk of the base, then of the extensions of the k-th subset,
\* gives the struct of subset k from the table the analysis built.
RECURSIVE WalkOfExts(_, _, _, _, _)
WalkOfExts(idxs, j, handled, out, ctx) ==
    IF j > Len(idxs) THEN out
    ELSE LET r == PrintImplsFromResolvedType(ta.typeInfo,
                      rt.resolvedExtTypes[idxs[j] + 1], ctx, handled)
         IN WalkOfExts(idxs, j + 1, r.excludes, out \o r.out, ctx)

WalkOfSubset(k) ==
    LET ctx == [tbn |-> StructOf(k), prefix |-> pi.prefix, extraFields |-> pi.extraFields]
        b == PrintImplsFromResolvedType(ta.typeInfo, rt.resolvedBaseType, ctx, {})
    IN WalkOfExts(KthSubset(Len(rt.resolvedExtTypes), k), 1, b.excludes, b.out, ctx)

RECURSIVE WalksUpTo(_)
WalksUpTo(k) == IF k < 0 THEN <<>> ELSE WalksUpTo(k - 1) \o WalkOfSubset(k)

\* C13: the types section defines, for k = 0..2^n-1 in this order, interface
\* i<B><k> embedding the base then the extensions of the k-th subset, and
\* struct t<B><k> with r of type i<B><k> then the extra fields in input
\* order; the vars and the impls of t<B><k> are those of the same subset; the
\* constructor names only structs and interfaces the types section defines.
C13_SameSubsetEverywhere ==
    LET n == Len(rt.resolvedExtTypes)
        last == 2 ^ n - 1
    IN /\ HasSection(buf, "types") =>
            LET ts == SectionBody(buf, "types") IN
            /\ Len(ts) = last + 1
            /\ \A k \in 0..last :
                  ts[k + 1] =
                      [iface |-> StructOf(k),
                       embeds |-> <<ATypeString(rt.resolvedBaseType.at)>> \o ExtsOfSubset(k),
                       struct |-> StructOf(k),
                       r |-> StructOf(k),
                       fields |-> [j \in 1..Len(pi.extraFields) |->
                                      [name |-> pi.extraFields[j].name,
                                       typeStr |-> pi.extraFields[j].typeStr]]]
       /\ HasSection(buf, "vars") =>
            LET vs == SectionBody(buf, "vars") IN
            \A k \in 0..last :
                {vs[i].type : i \in {i \in 1..Len(vs) : vs[i].struct = StructOf(k)}}
                    = {ATypeString(rt.resolvedBaseType.at)} \cup SeqRange(ExtsOfSubset(k))
       /\ HasSection(buf, "impls") => SectionBody(buf, "impls") = WalksUpTo(last)
       /\ HasSection(buf, "newfunc") =>
            LET nf == SectionBody(buf, "newfunc")
                defined == {StructOf(k) : k \in 0..last}
            IN /\ nf.fallback.struct \in defined
               /\ \A i \in 1..Len(nf.cases) :
                     nf.cases[i].struct \in defined /\ nf.cases[i].iface \in defined

\* A file with four structs has been written, or one with two extra fields.
C13_Witness ==
    /\ pc = "done"
    /\ Len(rt.resolvedExtTypes) = 2 \/ Len(pi.extraFields) = 2

\* The declaration of the method an emitted method is named after.
MethodDecl(name) ==
    IF \E i \in Slots : MName[i] = name
    THEN LET i == CHOOSE i \in Slots : MName[i] = name
         IN ExplicitMethods(world, NamedType(world.pkgOf[i], TName[i]))[1]
    ELSE ExplicitMethods(world, NamedType(Drv2Path, "T1"))[1]

\* C14: every emitted method calls <prefix><MethodName> with the struct's r,
\* then the extra fields in input order, then its own parameters in their
\* order (each argument names the parameter at its position, which a blank
\* identifier cannot), and returns the call exactly when the method has a
\* result.
C14_ForwardingCall ==
    HasSection(buf, "impls") =>
        LET ms == SectionBody(buf, "impls") IN
        \A i \in 1..Len(ms) :
            LET m == ms[i]
                decl == MethodDecl(m.name)
            IN /\ m.callee = <<pi.prefix, m.name>>
               /\ m.args = << [recv |-> TRUE, field |-> "r"] >> \o
                           [j \in 1..Len(pi.extraFields) |->
                               [recv |-> TRUE, field |-> pi.extraFields[j].name]]
               /\ Len(m.forwarded) = Len(decl.params)
               /\ Len(m.params) = Len(decl.params)
               /\ \A j \in 1..Len(m.forwarded) :
                     /\ m.forwarded[j] = m.params[j].name
                     /\ m.forwarded[j] # DeclaredName("_")
                     /\ decl.params[j].name \notin {DeclaredName(""), DeclaredName("_")}
                            => m.params[j].name = decl.params[j].name
                     /\ \A l \in 1..Len(m.forwarded) :
                           l # j => m.forwarded[l] # m.forwarded[j]
               /\ m.returns <=> Len(decl.results) > 0

\* The last call of Next advanced within the subset size of the call before.
AdvancedInSize ==
    /\ view.ret = "true"
    /\ Len(view.kept) >= 2
    /\ view.kept[Len(view.kept) - 1].slice.len = view.kept[Len(view.kept)].slice.len

\* C15: the slice Get returns is the enumerator's own buffer, and once Next
\* has advanced within the same subset size the slice kept from the call
\* before no longer shows the subset it was read for: it shows the new one.
C15_GetReturnsView ==
    /\ view.ret = "true" => view.kept[Len(view.kept)].slice = view.idxs
    /\ AdvancedInSize =>
          LET before == view.kept[Len(view.kept) - 1]
              now == view.kept[Len(view.kept)]
          IN /\ ReadSlice(view.mem, before.slice) # before.subset
             /\ ReadSlice(view.mem, before.slice) = now.subset

\* Next has advanced within size two.
C15_Witness ==
    /\ AdvancedInSize
    /\ view.idxs.len = 2

\* C16: the imports section has one line for every path of the import table
\* and no other, the lines are in ascending order of their paths, and a line
\* has an alias before its path exactly when the table records a non-empty
\* alias, which is then the alias printed.
C16_ImportsSection ==
    HasSection(buf, "imports") =>
        LET ls == SectionBody(buf, "imports") IN
        /\ {ls[i].path : i \in 1..Len(ls)} = DOMAIN ta.imports
        /\ Len(ls) = Cardinality(DOMAIN ta.imports)
        /\ \A i \in 1..(Len(ls) - 1) : PathRank(ls[i].path) < PathRank(ls[i + 1].path)
        /\ \A i \in 1..Len(ls) : ls[i].name = ta.imports[ls[i].path]

\* An imports section of two lines, one of them with an alias.
C16_Witness ==
    /\ HasSection(buf, "imports")
    /\ Len(SectionBody(buf, "imports")) >= 2
    /\ \E i \in 1..Len(SectionBody(buf, "imports")) : SectionBody(buf, "imports")[i].name # ""

\* The parts of the artifact in their canonical order.
CanonicalOrder == <<"header", "package", "imports", "types", "vars", "impls", "newfunc">>

\* C17: the buffer is always a beginning of header, package, imports, types,
\* vars, impls, constructor, the written file is all seven, each once, with
\* the imports part that of the import table, and no step changes the import
\* table once the imports part is rendered.
C17_CanonicalOrder ==
    /\ [](/\ Len(buf) <= Len(CanonicalOrder)
          /\ \A i \in 1..Len(buf) : buf[i].kind = CanonicalOrder[i]
          /\ pc = "done" =>
                /\ [i \in 1..Len(outFile) |-> outFile[i].kind] = CanonicalOrder
                /\ SectionBody(outFile, "imports") = PrintImports(ta.imports))
    /\ [][HasSection(buf, "imports") => ta'.imports = ta.imports]_vars

\* A file has been written whose import table holds an entry made while a
\* method signature was rendered (no base, extension or extra-field type is
\* of that package).
C17_Witness ==
    /\ pc = "done"
    /\ CtxPath \in DOMAIN ta.imports
    /\ pi.extraFields = <<>>

\* C18: the step that formats and writes ends the run successfully, with the
\* text in the output file, exactly when the file can be written; when the
\* text does not format it prints a warning and the file gets the text as it
\* was laid out in the buffer, and otherwise it prints none and the file gets
\* the formatted text; a file that cannot be written is left alone.
C18_FormatWarning ==
    [][pc = "write" =>
          /\ pc' = IF Writable(pi.outFile) THEN "done" ELSE "failed"
          /\ IF FormatSource(buf).err
             THEN /\ stderr' = Append(stderr, "WARN")
                  /\ pc' = "done" => outFile' = buf
             ELSE /\ stderr' = stderr
                  /\ pc' = "done" => outFile' = FormatSource(buf).src
          /\ pc' = "failed" => outFile' = outFile]_vars

\* A text that does not format has been written, with a warning.
C18_Witness ==
    /\ pc = "done"
    /\ stderr = <<"WARN">>
    /\ outFile = buf

\* C19: each StringSet holds exactly the strings added to it (those of the
\* other set included after AddSet, which leaves the other set as it was),
\* Len is their number, Diff returns exactly the receiver's strings the other
\* set lacks and changes neither set, and ToSlice returns every string once
\* in ascending order.
C19_StringSetIsASet ==
    ss # <<>> =>
        /\ \A h \in SetVars :
              /\ \A str \in Strings : Has(ss.sets[h], str) <=> str \in ss.added[h]
              /\ SetLen(ss.sets[h]) = Cardinality(ss.added[h])
        /\ ss.ret.op = "Has" => ss.ret.bool = (ss.ret.str \in ss.added[ss.ret.recv])
        /\ ss.ret.op = "Len" => ss.ret.int = Cardinality(ss.added[ss.ret.recv])
        /\ ss.ret.op = "Diff" =>
              \A str \in Strings :
                  Has(ss.ret.set, str) <=>
                      str \in ss.added[ss.ret.recv] \ ss.added[ss.ret.other]
        /\ ss.ret.op = "ToSlice" =>
              /\ Len(ss.ret.slice) = Cardinality(ss.added[ss.ret.recv])
              /\ { ss.ret.slice[i] : i \in 1..Len(ss.ret.slice) } = ss.added[ss.ret.recv]
              /\ \A i \in 1..(Len(ss.ret.slice) - 1) :
                    StrRank(ss.ret.slice[i]) < StrRank(ss.ret.slice[i + 1])

\* Diff of two overlapping sets, after strings were added twice, left a
\* string of the receiver.
C19_Witness ==
    /\ ss # <<>>
    /\ ss.ret.op = "Diff"
    /\ ss.ret.recv # ss.ret.other
    /\ ss.added[ss.ret.recv] \cap ss.added[ss.ret.other] # {}
    /\ SetLen(ss.ret.set) = 1
    /\ SetLen(ss.sets[ss.ret.recv]) = 3

\* The names of the interfaces an entry of the table lists as embedded, and
\* of the methods it lists as declared.
EntryEmbeddedNames(e) == [j \in 1..Len(e.embeddedTypes) |-> e.embeddedTypes[j][2]]
EntryMethodNames(e) == [j \in 1..Len(e.explicitMethods) |-> e.explicitMethods[j].name]

\* C20: every entry of the InterfaceInfo table lists the interfaces its own
\* interface embeds directly and the methods its own interface declares, in
\* order, also when the interface was reached through embedding.
C20_EntryHoldsOwnParts ==
    pc # "idle" =>
        \A i \in Slots : \A k \in KeysOf(i) :
            LET own == NamedType(world.pkgOf[i], TName[i])
                emb == EmbeddedTypes(world, own)
                ms == ExplicitMethods(world, own)
            IN /\ EntryEmbeddedNames(ta.typeInfo[k]) = [j \in 1..Len(emb) |-> emb[j].name]
               /\ EntryMethodNames(ta.typeInfo[k]) = [j \in 1..Len(ms) |-> ms[j].name]

\* C21: the walk that emits the impls section ends for every table the
\* analysis has produced: no call of printImplsFromInterfaceRecursive is
\* entered again, for the same interface with the same excludes, while it is
\* running.
C21_WalkTerminates ==
    pc = "printImpls" =>
        PrintImpls(rt, ta.typeInfo, pi.prefix, pi.extraFields).fail # "overflow"

\* Whether the step is a turn of the loop of analyzeInterface.
QueueTurn == pc = "queue" /\ Len(ta.typeQueue) > 0

\* C22: the loop of analyzeInterface ends for every interface graph; a turn
\* for an interface the table holds changes nothing but the queue, which
\* loses its head, any other turn that succeeds adds the one key of the
\* interface taken from the queue and leaves the entries of the table as
\* they were, and the queue is empty when the walk has returned.
C22_QueueWalkTerminates ==
    /\ [][/\ (QueueTurn /\ pc' # "failed") =>
                LET info == Head(ta.typeQueue).info IN
                IF info \in DOMAIN ta.typeInfo
                THEN /\ ta'.typeInfo = ta.typeInfo
                     /\ ta'.typeQueue = Tail(ta.typeQueue)
                ELSE /\ DOMAIN ta'.typeInfo = DOMAIN ta.typeInfo \cup {info}
                     /\ \A k \in DOMAIN ta.typeInfo : ta'.typeInfo[k] = ta.typeInfo[k]
          /\ (pc = "queue" /\ pc' = "roots") => ta'.typeQueue = <<>>]_vars
    /\ (pc = "queue") ~> (pc \in {"roots", "failed"})

\* The next turn of the loop skips an interface that was queued more than
\* once and is in the table by now.
C22_Witness ==
    /\ QueueTurn
    /\ Head(ta.typeQueue).info \in DOMAIN ta.typeInfo
    /\ Cardinality(DOMAIN ta.typeInfo) >= 3

\* C23: a call of analyzeResolvedTypeForImports for a type of an imported
\* package that is referred to under the declared name of the package, while
\* the user-supplied imports list the package by its path only and the
\* table holds no alias for it, raises no conflict and leaves the package in
\* the table with the empty alias.
C23_EmptyAliasIsDeclaredName ==
    [][(/\ pc = "visit"
        /\ root'.idx = root.idx + 1
        /\ LET v == Visitors[root.idx + 1]
               importsMap == ImportsMap(pi.imports, 1, EmptyMap).map
           IN /\ v.pkgPath \notin {"", ta.thisPkgPath}
              /\ v.at.pkgName = v.origPkgName
              /\ v.pkgPath \in DOMAIN importsMap
              /\ importsMap[v.pkgPath] = ""
              /\ v.pkgPath \in DOMAIN ta.imports => ta.imports[v.pkgPath] = "")
       => /\ pc' # "failed"
          /\ Visitors[root.idx + 1].pkgPath \in DOMAIN ta'.imports
          /\ ta'.imports[Visitors[root.idx + 1].pkgPath] = ""]_vars

\* Whether a type holds an anonymous struct, a bare interface or a tuple at
\* some depth; the tuples of the parameters and of the results of a function
\* type are looked into, not counted.
RECURSIVE Unsupported(_)
Unsupported(t) ==
    \/ t.kind \in {"Struct", "Interface", "Tuple"}
    \/ /\ t.kind = "Signature"
       /\ \E k \in 1..2 : \E j \in 1..Len(t.elems[k].elems) : Unsupported(t.elems[k].elems[j])
    \/ /\ t.kind \in {"Pointer", "Array", "Slice", "Map", "Chan"}
       /\ \E j \in 1..Len(t.elems) : Unsupported(t.elems[j])

\* C24: typeToStr returns an error for every type that holds an anonymous
\* struct, a bare interface or a tuple at some depth, and the analysis of a
\* method with a parameter of such a type returns an error.
C24_UnsupportedTypeFails ==
    (rd # <<>> /\ Unsupported(rd.type)) =>
        /\ rd.step # "type" => rd.str.err
        /\ rd.step \in {"analyzed", "printed"} => rd.infos.err

\* C25: a variadic function type is rendered with its last parameter as
\* "..." followed by the rendering of the element type, and the method
\* emitted for a variadic interface method has its last parameter rendered
\* that way too.
C25_VariadicPreserved ==
    rd # <<>> =>
        /\ (rd.step # "type" /\ rd.type.kind = "Signature" /\ rd.type.name = "variadic"
                /\ ~rd.str.err) =>
              LET params == rd.type.elems[1].elems
                  last == params[Len(params)]
              IN rd.str.str.elems[1].elems[Len(params)] =
                     Str("Variadic", "", "",
                         <<TypeToStr(EmptyMap, ThisPkgPath, last.elems[1]).str>>)
        /\ (rd.step = "printed" /\ rd.variadic) =>
              LET ps == rd.out[1].params IN
              ps[Len(ps)].typeStr =
                  Str("Variadic", "", "",
                      <<TypeToStr(EmptyMap, ThisPkgPath, rd.type.elems[1]).str>>)

\* The symbolic types at the leaves of a type expression.
RECURSIVE LeafTypes(_)
LeafTypes(a) ==
    CASE a.kind = "Ident" -> { AType("", a.name) }
      [] a.kind = "SelectorExpr" -> { AType(a.pkg, a.name) }
      [] OTHER -> UNION { LeafTypes(a.kids[k]) : k \in 1..Len(a.kids) }

\* C27: the flag value "extra,<type>" of every type expression of a supported
\* shape is accepted as the field extra with that expression, and the names
\* collected from it are the symbolic types at its leaves.
C27_SupportedShapesAccepted ==
    (call # <<>> /\ call.fn = "strToExtraField") =>
        /\ call.step # "flag" =>
              /\ ~call.out.err
              /\ call.out.field.name = <<"extra">>
              /\ call.out.field.expr = call.type
        /\ call.step = "collected" =>
              /\ ~call.names.err
              /\ SeqRange(call.names.types) = LeafTypes(call.type)

\* The user-supplied imports and the imports of the file that give a package
\* the alias of the symbolic type.
UserMatches == { k \in 1..Len(call.imports) : call.imports[k].name = call.at.pkgName }
FileMatches == { p \in call.pkgImports : PkgName(p) = call.at.pkgName }

\* C26: with an empty alias the type is the one the local scope holds under
\* the name, else the one the universe holds, and resolution fails when
\* neither holds it; with an alias the path is that of the first
\* user-supplied import with the alias, else that of an import of the file
\* whose package has the name, and resolution fails when there is none or
\* when the package at the path holds no such name.
C26_ResolutionPrecedence ==
    (call # <<>> /\ call.fn = "resolveAnyType" /\ call.step = "resolved") =>
        IF call.at.pkgName = ""
        THEN LET local == ScopeLookup(call.world, ThisPkgPath, call.at.name)
                 universe == UniverseLookup(call.at.name)
             IN /\ call.out.pkg = ""
                /\ local.kind # "None" => (~call.out.err /\ call.out.type = local)
                /\ (local.kind = "None" /\ universe.kind # "None") =>
                       (~call.out.err /\ call.out.type = universe)
                /\ (local.kind = "None" /\ universe.kind = "None") => call.out.err
        ELSE /\ UserMatches # {} =>
                   (~call.got.err /\
                    call.got.path = call.imports[CHOOSE k \in UserMatches :
                                                    \A j \in UserMatches : k <= j].path)
             /\ (UserMatches = {} /\ FileMatches # {}) =>
                   (~call.got.err /\ call.got.path \in FileMatches)
             /\ (UserMatches = {} /\ FileMatches = {}) => (call.got.err /\ call.out.err)
             /\ ~call.got.err =>
                   LET found == IF call.got.path \in KnownPaths
                                THEN ScopeLookup(call.world, call.got.path, call.at.name)
                                ELSE NoType
                   IN IF found.kind = "None" THEN call.out.err
                      ELSE /\ ~call.out.err
                           /\ call.out.type = found
                           /\ call.out.pkg = call.got.path

\* A type under an alias that a user-supplied import and an import of the
\* file both give has been resolved in the package of the user-supplied one.
C26_Witness ==
    /\ call # <<>>
    /\ call.fn = "resolveAnyType"
    /\ call.step = "resolved"
    /\ UserMatches # {}
    /\ FileMatches # {}
    /\ call.got.path \notin FileMatches
    /\ ~call.out.err

\* 10^k.
RECURSIVE Pow10(_)
Pow10(k) == IF k = 0 THEN 1 ELSE 10 * Pow10(k - 1)

\* The name the parameter at position k (from 1) of a signature is to carry,
\* given the names of the positions before it.
NameWanted(k, used) ==
    LET first == IF call.parameters[k].name = DeclaredName("")
                 THEN ParamName("param", k - 1)
                 ELSE call.parameters[k].name
        free == { e \in 1..(MaxParams + 2) :
                    ParamName("param", (k - 1) * Pow10(e)) \notin used }
    IN IF first \notin used THEN first
       ELSE ParamName("param", (k - 1) * Pow10(CHOOSE e \in free : \A f \in free : e <= f))

\* C28: the names of an emitted method's parameters are non-empty and
\* pairwise distinct; an anonymous parameter at index i is named param<i>, a
\* name already used in the method becomes param<i*10^k> for the least k that
\* is unused, and the call forwards the names of the signature, position by
\* position.
C28_ParameterNames ==
    (call # <<>> /\ call.fn = "parameters" /\ call.step = "call") =>
        /\ Len(call.full) = Len(call.parameters)
        /\ \A k \in 1..Len(call.full) :
              /\ call.full[k].name # DeclaredName("")
              /\ call.full[k].typeStr = call.parameters[k].typeStr
              /\ \A j \in 1..Len(call.full) : j # k => call.full[j].name # call.full[k].name
              /\ call.full[k].name = NameWanted(k, { call.full[j].name : j \in 1..(k - 1) })
        /\ call.forwarded = [k \in 1..Len(call.full) |-> call.full[k].name]

\* A method with two blank parameters and one spelled param10 has been
\* emitted: the second blank one and the declared param10 were renamed.
C28_Witness ==
    /\ call # <<>>
    /\ call.fn = "parameters"
    /\ call.step = "call"
    /\ Len(call.parameters) = 3
    /\ call.parameters[1].name = DeclaredName("_")
    /\ call.parameters[2].name = DeclaredName("_")
    /\ call.parameters[3].name = ParamName("param", 10)
    /\ call.forwarded = << DeclaredName("_"), ParamName("param", 10), ParamName("param", 20) >>

\* C29: once Next has returned false every later call returns false and
\* yields no further subset, whatever n is; the loop on Next ends, after
\* exactly 2^n iterations.
C29_ExhaustionPermanent ==
    /\ [][Exhausted => (lastRet' = "false" /\ produced' = produced /\ cg'.n = cg.n)]_vars
    /\ [](Exhausted => Len(produced) = NCombs(cg.n))
    /\ [](~Exhausted => Len(produced) <= NCombs(cg.n))
    /\ <>Exhausted

\* Next has been called MaxExtraCalls times more after its first false, for
\* n = 4.
C29_Witness ==
    /\ Exhausted
    /\ extra = MaxExtraCalls
    /\ cg.n = 4
    /\ Len(produced) = 16

\* The command line passes flag parsing, validation and input parsing.
CmdLineAccepted ==
    /\ call.fi.parse = "ok"
    /\ call.fi.baseType \in { <<pi.baseType.name>>, <<pi.baseType.pkgName, pi.baseType.name>> }
    /\ \A k \in 1..Len(call.fi.baseType) : call.fi.baseType[k] # ""
    /\ call.fi.prefix # <<>>
    /\ call.fi.newFuncName # <<>>
    /\ \A k \in 1..Len(call.fi.prefix) : call.fi.prefix[k] # "-"
    /\ \A k \in 1..Len(call.fi.newFuncName) : call.fi.newFuncName[k] # "-"
    /\ call.fi.prefix[1] # "9"
    /\ call.fi.newFuncName[1] # "9"
    /\ call.fi.inFile # ""
    /\ call.fi.stat = "regular"

\* C30: a run writes the output file at most once, in its last step, and
\* only when flag parsing, validation, input parsing, type resolution and
\* the analysis have succeeded; a run that fails leaves the file as it was.
C30_WrittenOnceAfterSuccess ==
    /\ [][/\ outFile' # outFile => (pc = "write" /\ pc' = "done")
          /\ pc \in {"done", "failed", "crashed"} => (outFile' = outFile /\ pc' = pc)]_vars
    /\ [](pc \in {"failed", "crashed"} => outFile = <<>>)
    /\ [](outFile # <<>> =>
            /\ pc = "done"
            /\ CmdLineAccepted
            /\ rt # NoResolvedTypes
            /\ ta # NoAnalysis
            /\ root.idx > 0)

\* A run whose command line was accepted and whose types were resolved has
\* failed in the analysis, before anything was printed.
C30_Witness ==
    /\ pc = "failed"
    /\ call # <<>>
    /\ call.fn = "mainErr"
    /\ CmdLineAccepted
    /\ rt # NoResolvedTypes
    /\ buf = <<>>
    /\ outFile = <<>>

====
